---- MODULE Spec2Model ----
(***************************************************************************)
(* Model of the normalisation and validation engine of the RCV pipeline:   *)
(*   utils/data_utils.py        (cleaning, id canonicalisation, transfer   *)
(*                               grid, candidate status)                   *)
(*   utils/validation_utils.py  (tier scorer, rule validators)             *)
(* Data frames are sequences of records (row order is kept); a missing     *)
(* value (None / NaN) is the value NULL.                                   *)
(***************************************************************************)
EXTENDS Integers, Sequences, FiniteSets, TLC

VARIABLES
    tpc,          \* tier scorer: "input" | "scored" | "rescored"
    flags_list,   \* tier scorer: the flag list handed to score_election_from_flags
    score,        \* tier scorer: its result on flags_list
    score2,       \* tier scorer: its result on flags_list plus one more flag
    ipc,          \* id canonicaliser: "input" | "done"
    row,          \* id canonicaliser: the Contest row handed to _create_standard_election_id
    std_id,       \* id canonicaliser: the id it returned
    cpc,          \* balance classifier: "input" | "classified"
    class_sum,    \* balance classifier: the sum_transfer handed to classify_transfer_balance
    class_total,  \* balance classifier: the round_total handed to it, or none given
    larger_total, \* balance classifier: a round total at least as large
    class_flag,   \* balance classifier: its result on class_sum and class_total
    class_flag_larger, \* balance classifier: its result on class_sum and larger_total
    pc,           \* pipeline: "raw" | "transferred" | "cleaned" | "validated" |
                  \*           "recleaned" | "failed" | "reclean_failed"
    elections_df, \* pipeline: the raw Contest frame
    candidates_df,\* pipeline: the raw CandidateRoundRecord frame
    rounds_df,    \* pipeline: the raw RoundSummary frame
    transferred,  \* pipeline: compute_transfer_from_votes(candidates_df)
    cleaned,      \* pipeline: clean_and_standardize_data of the raw frames
    validation_results, \* pipeline: validate_election_data of the cleaned frames
    recleaned     \* pipeline: clean_and_standardize_data of the cleaned frames

tierVars == <<tpc, flags_list, score, score2>>
idVars == <<ipc, row, std_id>>
classVars == <<cpc, class_sum, class_total, larger_total, class_flag, class_flag_larger>>
inputVars == <<elections_df, candidates_df, rounds_df>>
pipeVars == <<pc, inputVars, transferred, cleaned, validation_results, recleaned>>
vars == <<tierVars, idVars, classVars, pipeVars>>

\* None / NaN
NULL == "<null>"

(***************************************************************************)
(* Generic helpers on sequences and sets.                                  *)
(***************************************************************************)
Range(s) == {s[i] : i \in 1..Len(s)}

SetMax(S) == CHOOSE x \in S : \A y \in S : y <= x

SeqsUpTo(S, n) == UNION {[1..k -> S] : k \in 0..n}

\* position of x in the sequence s (x occurs in s)
IndexOf(s, x) == CHOOSE i \in 1..Len(s) : s[i] = x /\ \A j \in 1..(i - 1) : s[j] # x

(***************************************************************************)
(* Python str operations, on TLA+ strings taken character by character.    *)
(***************************************************************************)
Chars(s) == [i \in 1..Len(s) |-> SubSeq(s, i, i)]

RECURSIVE Cat(_)
Cat(cs) ==
    IF Len(cs) = 0 THEN ""
    ELSE IF Len(cs) = 1 THEN cs[1]
    ELSE LET m == Len(cs) \div 2
         IN  Cat(SubSeq(cs, 1, m)) \o Cat(SubSeq(cs, m + 1, Len(cs)))

LOWER == "abcdefghijklmnopqrstuvwxyz"
UPPER == "ABCDEFGHIJKLMNOPQRSTUVWXYZ"
DIGITS == "0123456789"

\* the ASCII characters of the identifiers, in code order: Python compares str
\* by code point
ASCII == " #&'()+,-./0123456789:ABCDEFGHIJKLMNOPQRSTUVWXYZ_abcdefghijklmnopqrstuvwxyz"

\* the position of every character of an alphabet
CharIndex(alphabet) ==
    [c \in {SubSeq(alphabet, i, i) : i \in 1..Len(alphabet)} |->
        CHOOSE i \in 1..Len(alphabet) : SubSeq(alphabet, i, i) = c]
LowerIndex == CharIndex(LOWER)
UpperIndex == CharIndex(UPPER)
DigitIndex == CharIndex(DIGITS)
AsciiIndex == CharIndex(ASCII)

\* index of the character c in an alphabet, 0 when absent
Pos(c, index) == IF c \in DOMAIN index THEN index[c] ELSE 0

isalpha(c) == c \in DOMAIN LowerIndex \/ c \in DOMAIN UpperIndex
isdigit(c) == c \in DOMAIN DigitIndex
\* regex classes \w and \s
IsWordChar(c) == isalpha(c) \/ isdigit(c) \/ c = "_"
IsSpaceChar(c) == c \in {" ", "\t", "\n"}

upper_c(c) ==
    IF c \in DOMAIN LowerIndex THEN SubSeq(UPPER, LowerIndex[c], LowerIndex[c]) ELSE c
lower_c(c) ==
    IF c \in DOMAIN UpperIndex THEN SubSeq(LOWER, UpperIndex[c], UpperIndex[c]) ELSE c

str_upper(s) == Cat([i \in 1..Len(s) |-> upper_c(SubSeq(s, i, i))])
str_lower(s) == Cat([i \in 1..Len(s) |-> lower_c(SubSeq(s, i, i))])

\* str.title(): a letter is upper-cased when the character before it is not a
\* letter, and lower-cased otherwise
str_title(s) ==
    Cat([i \in 1..Len(s) |->
            IF i > 1 /\ isalpha(SubSeq(s, i - 1, i - 1))
            THEN lower_c(SubSeq(s, i, i))
            ELSE upper_c(SubSeq(s, i, i))])

RECURSIVE str_lstrip(_)
str_lstrip(s) ==
    IF s # "" /\ IsSpaceChar(SubSeq(s, 1, 1)) THEN str_lstrip(SubSeq(s, 2, Len(s))) ELSE s

RECURSIVE str_rstrip(_)
str_rstrip(s) ==
    IF s # "" /\ IsSpaceChar(SubSeq(s, Len(s), Len(s)))
    THEN str_rstrip(SubSeq(s, 1, Len(s) - 1)) ELSE s

str_strip(s) == str_rstrip(str_lstrip(s))

\* s.replace(" ", "")
remove_spaces(s) == Cat(SelectSeq(Chars(s), LAMBDA c : c # " "))

\* re.sub(r'[^\w\s]', '', s)
re_sub_punct(s) == Cat(SelectSeq(Chars(s), LAMBDA c : IsWordChar(c) \/ IsSpaceChar(c)))

\* s.zfill(w): zeros on the left, after a leading sign
RECURSIVE str_zfill(_, _)
str_zfill(s, w) ==
    IF Len(s) >= w THEN s
    ELSE IF s # "" /\ SubSeq(s, 1, 1) \in {"+", "-"}
         THEN SubSeq(s, 1, 1) \o str_zfill(SubSeq(s, 2, Len(s)), w - 1)
         ELSE str_zfill("0" \o s, w)

\* int(s) succeeds: an optional sign and one or more decimal digits
IsIntLiteral(s) ==
    LET body == IF s # "" /\ SubSeq(s, 1, 1) \in {"+", "-"} THEN SubSeq(s, 2, Len(s)) ELSE s
    IN  body # "" /\ \A i \in 1..Len(body) : isdigit(SubSeq(body, i, i))

RECURSIVE DigitsValue(_)
DigitsValue(s) ==
    IF s = "" THEN 0
    ELSE 10 * DigitsValue(SubSeq(s, 1, Len(s) - 1)) + (Pos(SubSeq(s, Len(s), Len(s)), DigitIndex) - 1)

\* int(s) for an s accepted by IsIntLiteral
ParseInt(s) ==
    IF SubSeq(s, 1, 1) = "-" THEN 0 - DigitsValue(SubSeq(s, 2, Len(s)))
    ELSE IF SubSeq(s, 1, 1) = "+" THEN DigitsValue(SubSeq(s, 2, Len(s)))
    ELSE DigitsValue(s)

RECURSIVE NatToStr(_)
NatToStr(n) ==
    IF n < 10 THEN SubSeq(DIGITS, n + 1, n + 1)
    ELSE NatToStr(n \div 10) \o SubSeq(DIGITS, (n % 10) + 1, (n % 10) + 1)

\* str(n) of an integer
IntToStr(n) == IF n < 0 THEN "-" \o NatToStr(0 - n) ELSE NatToStr(n)

\* str(v) of a text cell: NaN prints as "nan"
StrOf(v) == IF v = NULL THEN "nan" ELSE v

\* "_".join(parts)
RECURSIVE JoinUnderscore(_)
JoinUnderscore(parts) ==
    IF parts = <<>> THEN ""
    ELSE IF Len(parts) = 1 THEN parts[1]
    ELSE parts[1] \o "_" \o JoinUnderscore(Tail(parts))

EndsWith(s, suffix) ==
    Len(s) >= Len(suffix) /\ SubSeq(s, Len(s) - Len(suffix) + 1, Len(s)) = suffix

\* a < b from character i on, the characters before i being equal
RECURSIVE StrLessFrom(_, _, _)
StrLessFrom(a, b, i) ==
    IF i > Len(b) THEN FALSE
    ELSE IF i > Len(a) THEN TRUE
    ELSE IF SubSeq(a, i, i) = SubSeq(b, i, i) THEN StrLessFrom(a, b, i + 1)
    ELSE Pos(SubSeq(a, i, i), AsciiIndex) < Pos(SubSeq(b, i, i), AsciiIndex)

\* a < b of two str
StrLess(a, b) == a # b /\ StrLessFrom(a, b, 1)

\* sorted(S) of a set of strings
RECURSIVE SortedStrings(_)
SortedStrings(S) ==
    IF S = {} THEN <<>>
    ELSE LET m == CHOOSE x \in S : \A y \in S \ {x} : StrLess(x, y)
         IN  <<m>> \o SortedStrings(S \ {m})

(***************************************************************************)
(* pandas operations on data frames (sequences of rows).                   *)
(***************************************************************************)
\* the rows of df whose index is in I, in frame order
RECURSIVE RowsAt(_, _, _)
RowsAt(df, I, k) ==
    IF k > Len(df) THEN <<>>
    ELSE (IF k \in I THEN <<df[k]>> ELSE <<>>) \o RowsAt(df, I, k + 1)

\* Series.unique(): the values in order of first appearance
RECURSIVE Unique(_)
Unique(col) ==
    IF col = <<>> THEN <<>>
    ELSE LET r == Unique(SubSeq(col, 1, Len(col) - 1))
         IN  IF col[Len(col)] \in Range(r) THEN r ELSE Append(r, col[Len(col)])

\* DataFrame.drop_duplicates(subset), key being the subset column: the first row
\* of every key is kept
DropDuplicates(df, key) ==
    RowsAt(df, {i \in 1..Len(df) : \A j \in 1..(i - 1) : key[j] # key[i]}, 1)

RECURSIVE Concat(_)
Concat(frames) == IF frames = <<>> THEN <<>> ELSE Head(frames) \o Concat(Tail(frames))

RECURSIVE SumSeq(_)
SumSeq(col) == IF col = <<>> THEN 0 ELSE Head(col) + SumSeq(Tail(col))

\* the election ids of a frame: its non-null election_id values
ElectionIds(df) == {df[i].election_id : i \in 1..Len(df)} \ {NULL}

(***************************************************************************)
(* data_utils.py: _create_standard_election_id.                            *)
(***************************************************************************)
office_map ==
    ("U.S. House" :> "US_House") @@
    ("U.S. Senator" :> "US_Senate") @@
    ("Senate" :> "State_Senate") @@
    ("House" :> "State_House") @@
    ("City Council" :> "Council") @@
    ("Council Member" :> "Council") @@
    ("Mayor" :> "Mayor") @@
    ("Governor" :> "Governor") @@
    ("District Attorney" :> "DistrictAttorney") @@
    ("School Board" :> "SchoolBoard") @@
    ("Board of Education" :> "BoardOfEducation")

type_abbr_map == ("general" :> "G") @@ ("primary" :> "P") @@ ("special" :> "S")

party_abbr_map == ("Democratic" :> "DEM") @@ ("Republican" :> "REP")

\* office_map.get(office, office.replace(" ", "")) of the stripped office
office_std(r) ==
    LET office == str_strip(StrOf(r.office))
    IN  IF office \in DOMAIN office_map THEN office_map[office] ELSE remove_spaces(office)

\* punctuation out, spaces out, then title()
juris_std(r) == str_title(remove_spaces(re_sub_punct(str_strip(StrOf(r.juris)))))

\* variant of dist_std: the district slug with "AtLarge" for an at-large district
dist_std_no_underscore(r) ==
    LET dist == str_strip(StrOf(r.dist))
    IN  IF str_lower(dist) = "at_large" THEN "AtLarge"
        ELSE IF IsIntLiteral(dist) THEN str_zfill(IntToStr(ParseInt(dist)), 2)
        ELSE str_zfill(dist, 2)
dist_std(r) ==
    LET dist == str_strip(StrOf(r.dist))
    IN  IF str_lower(dist) = "at_large" THEN "At_Large"
        ELSE IF IsIntLiteral(dist) THEN str_zfill(IntToStr(ParseInt(dist)), 2)
        ELSE str_zfill(dist, 2)

\* variant of type_abbr: the election type is looked up as it is written
type_abbr_as_written(r) ==
    LET t == StrOf(r.election_type)
    IN  IF t \in DOMAIN type_abbr_map THEN type_abbr_map[t] ELSE "X"

\* type_abbr_map.get(str(row["election_type"]).lower(), "X")
type_abbr(r) ==
    LET t == str_lower(StrOf(r.election_type))
    IN  IF t \in DOMAIN type_abbr_map THEN type_abbr_map[t] ELSE "X"

\* the party token: primaries with a party only
party_part(r) ==
    IF str_lower(StrOf(r.election_type)) = "primary" /\ r.prm_party # NULL
    THEN LET party_clean == str_title(str_strip(r.prm_party))
         IN  << IF party_clean \in DOMAIN party_abbr_map
                THEN party_abbr_map[party_clean]
                ELSE str_upper(SubSeq(party_clean, 1, IF Len(party_clean) < 3 THEN Len(party_clean) ELSE 3)) >>
    ELSE <<>>

\* A cell of a numeric column: an int64 cell, a float64 cell holding a whole
\* number, or NaN (which makes the column float64).
IntCell(n) == [t |-> "int", v |-> n]
FloatCell(n) == [t |-> "float", v |-> n]
NaNCell == [t |-> "nan", v |-> 0]

\* str(row["year"]) of the numeric year cell
YearStr(y) ==
    CASE y.t = "int" -> IntToStr(y.v)
      [] y.t = "float" -> IntToStr(y.v) \o ".0"
      [] OTHER -> "nan"

create_standard_election_id(r) ==
    JoinUnderscore(<<StrOf(r.state), YearStr(r.year), type_abbr(r),
                     juris_std(r), dist_std(r), office_std(r)>> \o party_part(r))

(***************************************************************************)
(* data_utils.py: cleaning of the three raw frames.                        *)
(*   Contest row:   election_id, state, year, office, juris, dist,         *)
(*                  election_type, prm_party, n_rounds                     *)
(*   candidate row: election_id, candidate_id, name, round, votes,         *)
(*                  percentage, transfer                                   *)
(*   round row:     election_id, round, total_votes, exhausted, overvotes  *)
(* votes, percentage and year are numeric cells; round and the round       *)
(* totals are integers.                                                    *)
(***************************************************************************)
\* pd.to_numeric(...) followed by int(): NaN has no value
CellIsNaN(c) == c.t = "nan"

\* _clean_elections: year becomes a numeric column (float64 as soon as one value
\* is missing), rows without election_id, state or office go, and the first row
\* of every election_id is kept
_clean_elections(df) ==
    LET anyNaN == \E i \in 1..Len(df) : df[i].year.t # "int"
        typed  == [i \in 1..Len(df) |->
                     [df[i] EXCEPT !.year = IF CellIsNaN(@) THEN NaNCell
                                            ELSE IF anyNaN THEN FloatCell(@.v)
                                            ELSE IntCell(@.v)]]
        kept   == SelectSeq(typed, LAMBDA r : r.election_id # NULL /\ r.state # NULL
                                               /\ r.office # NULL)
    IN  DropDuplicates(kept, [i \in 1..Len(kept) |-> kept[i].election_id])

\* _clean_transfer_field.convert_transfer
convert_transfer(value) ==
    IF value = NULL \/ value = "" THEN 0
    ELSE LET transfer_str == str_strip(value)
         IN  IF transfer_str = "" THEN 0
             ELSE IF SubSeq(transfer_str, 1, 1) = "+"
                  THEN (IF IsIntLiteral(SubSeq(transfer_str, 2, Len(transfer_str)))
                        THEN ParseInt(SubSeq(transfer_str, 2, Len(transfer_str))) ELSE 0)
                  ELSE (IF IsIntLiteral(transfer_str) THEN ParseInt(transfer_str) ELSE 0)

\* _clean_candidates: transfer_original is added when the frame has a transfer
\* column; rows without election_id, candidate_id, round or votes go
_clean_candidates(df) ==
    LET typed == [i \in 1..Len(df) |->
                    IF "transfer" \in DOMAIN df[i]
                    THEN df[i] @@ [transfer_original |-> convert_transfer(df[i].transfer)]
                    ELSE df[i]]
    IN  SelectSeq(typed, LAMBDA r : r.election_id # NULL /\ r.candidate_id # NULL
                                     /\ ~CellIsNaN(r.votes))

\* _clean_rounds: rows without election_id go (the numeric fields were filled)
_clean_rounds(df) == SelectSeq(df, LAMBDA r : r.election_id # NULL)

\* dict(zip(old ids, new ids)): a later row of the same old id wins
id_mapping(elections, election_id_std) ==
    [old \in {elections[i].election_id : i \in 1..Len(elections)} |->
        election_id_std[SetMax({i \in 1..Len(elections) : elections[i].election_id = old})]]

\* variant of MapId: an id without an entry is kept as it is
MapIdKeepUnmapped(mapping, id) == IF id \in DOMAIN mapping THEN mapping[id] ELSE id

\* Series.map(id_mapping): an id without an entry becomes NaN
MapId(mapping, id) == IF id \in DOMAIN mapping THEN mapping[id] ELSE NULL

MapIds(mapping, df) ==
    [i \in 1..Len(df) |-> [df[i] EXCEPT !.election_id = MapId(mapping, @)]]

\* _standardize_election_ids
_standardize_election_ids(elections, candidates, rounds) ==
    LET election_id_std == [i \in 1..Len(elections) |->
                               create_standard_election_id(elections[i])]
        mapping == id_mapping(elections, election_id_std)
    IN  [elections  |-> [i \in 1..Len(elections) |->
                           [elections[i] EXCEPT !.election_id = election_id_std[i]]],
         candidates |-> MapIds(mapping, candidates),
         rounds     |-> MapIds(mapping, rounds)]

(***************************************************************************)
(* data_utils.py: compute_transfer_from_votes.                             *)
(***************************************************************************)
\* pd.to_numeric(votes, errors="coerce").fillna(0).astype(int)
VotesInt(c) == IF CellIsNaN(c) THEN 0 ELSE c.v

SameGroup(a, b) == a.election_id = b.election_id /\ a.candidate_id = b.candidate_id

SameKey(a, b) == SameGroup(a, b) /\ a.round = b.round

\* groupby(election_id)[round].max(): one entry per non-null id, ids sorted
max_rounds(df) ==
    [eid \in ElectionIds(df) |->
        SetMax({df[i].round : i \in {j \in 1..Len(df) : df[j].election_id = eid}})]

\* the candidate x round grid of one election: the candidates in order of first
\* appearance, each with the rounds 1..rmax
grid(df, eid, rmax) ==
    LET rows  == SelectSeq(df, LAMBDA r : r.election_id = eid)
        cands == Unique([i \in 1..Len(rows) |-> rows[i].candidate_id])
    IN  Concat([c \in 1..Len(cands) |->
                  [r \in 1..rmax |->
                      [election_id |-> eid, candidate_id |-> cands[c], round |-> r]]])

\* variant of full_grid: the grid restricted to the keys the input holds (no filled rows)
observed_grid(df) ==
    LET eids == SortedStrings(ElectionIds(df))
        full == Concat([e \in 1..Len(eids) |-> grid(df, eids[e], max_rounds(df)[eids[e]])])
    IN  SelectSeq(full, LAMBDA g : \E j \in 1..Len(df) : SameKey(df[j], g))
full_grid(df) ==
    LET eids == SortedStrings(ElectionIds(df))
    IN  Concat([e \in 1..Len(eids) |-> grid(df, eids[e], max_rounds(df)[eids[e]])])

\* variant of merge_left: the merge without drop_duplicates: one row per input row of a key
merge_left_all(full, df) ==
    Concat([i \in 1..Len(full) |->
        LET hits == SelectSeq(df, LAMBDA r : SameKey(r, full[i]))
        IN  IF hits = <<>>
            THEN <<full[i] @@ [votes |-> NaNCell, name |-> NULL, percentage |-> NaNCell]>>
            ELSE [k \in 1..Len(hits) |->
                     full[i] @@ [votes |-> hits[k].votes, name |-> hits[k].name,
                                 percentage |-> hits[k].percentage]]])
\* full.merge(df.drop_duplicates(keys), how="left"): every grid row with the
\* votes, name and percentage of the first input row of its key, or NaN
merge_left(full, df) ==
    [i \in 1..Len(full) |->
        LET hits == {j \in 1..Len(df) : SameKey(df[j], full[i])}
        IN  IF hits = {}
            THEN full[i] @@ [votes |-> NaNCell, name |-> NULL, percentage |-> NaNCell]
            ELSE LET j == CHOOSE k \in hits : \A m \in hits : k <= m
                 IN  full[i] @@ [votes |-> df[j].votes, name |-> df[j].name,
                                 percentage |-> df[j].percentage]]

\* groupby([election_id, candidate_id])[col].ffill(): the last value present at
\* or before the row, within the row's group
group_ffill(rows, col, null) ==
    [i \in 1..Len(rows) |->
        LET js == {j \in 1..i : SameGroup(rows[j], rows[i]) /\ col[j] # null}
        IN  IF js = {} THEN null ELSE col[SetMax(js)]]

\* Series.bfill(): the next value present at or after the row, over the whole
\* column (the groupby has ended with ffill)
series_bfill(col, null) ==
    [i \in 1..Len(col) |->
        LET js == {j \in i..Len(col) : col[j] # null}
        IN  IF js = {} THEN null ELSE col[CHOOSE k \in js : \A m \in js : k <= m]]

RowLess(a, b) ==
    IF a.election_id # b.election_id THEN StrLess(a.election_id, b.election_id)
    ELSE IF a.candidate_id # b.candidate_id THEN StrLess(a.candidate_id, b.candidate_id)
    ELSE a.round < b.round

\* sort_values([election_id, candidate_id, round], kind="mergesort"): stable
RECURSIVE sort_values(_)
sort_values(rows) ==
    IF rows = <<>> THEN <<>>
    ELSE LET m == CHOOSE i \in 1..Len(rows) :
                     /\ \A j \in 1..Len(rows) : ~RowLess(rows[j], rows[i])
                     /\ \A j \in 1..(i - 1) : RowLess(rows[i], rows[j])
         IN  <<rows[m]>> \o sort_values(RowsAt(rows, (1..Len(rows)) \ {m}, 1))

\* variant of group_diff: the diff with the first row of a group compared to 0 votes
diff_from_zero(rows, i) ==
    LET before == {j \in 1..(i - 1) : SameGroup(rows[j], rows[i])}
    IN  IF before = {} THEN rows[i].votes ELSE rows[i].votes - rows[SetMax(before)].votes
\* variant of group_diff: the size of the difference, without its sign
group_diff_unsigned(rows, i) ==
    LET before == {j \in 1..(i - 1) : SameGroup(rows[j], rows[i])}
        d == IF before = {} THEN 0 ELSE rows[i].votes - rows[SetMax(before)].votes
    IN  IF d < 0 THEN 0 - d ELSE d

\* variant of group_diff: the diff with 0 for a row without votes
diff_zero_after_elimination(rows, i) ==
    LET before == {j \in 1..(i - 1) : SameGroup(rows[j], rows[i])}
    IN  IF before = {} \/ rows[i].votes = 0 THEN 0
        ELSE rows[i].votes - rows[SetMax(before)].votes
\* groupby([election_id, candidate_id])[votes].diff().fillna(0): the votes minus
\* the votes of the row before it in its group; 0 for the first row of a group
group_diff(rows, i) ==
    LET before == {j \in 1..(i - 1) : SameGroup(rows[j], rows[i])}
    IN  IF before = {} THEN 0 ELSE rows[i].votes - rows[SetMax(before)].votes

\* pd.concat(grids) raises on an empty list: no row has an election id
TransferRaises(df) == ElectionIds(df) = {}

compute_transfer_from_votes(df) ==
    LET merged == merge_left(full_grid(df), df)
        names  == series_bfill(group_ffill(merged,
                                  [i \in 1..Len(merged) |-> merged[i].name], NULL), NULL)
        pcts   == series_bfill(group_ffill(merged,
                                  [i \in 1..Len(merged) |-> merged[i].percentage], NaNCell),
                               NaNCell)
        filled == [i \in 1..Len(merged) |->
                     [election_id |-> merged[i].election_id,
                      candidate_id |-> merged[i].candidate_id,
                      round |-> merged[i].round,
                      votes |-> VotesInt(merged[i].votes),
                      name |-> names[i],
                      percentage |-> pcts[i]]]
        sorted == sort_values(filled)
    IN  [i \in 1..Len(sorted) |-> sorted[i] @@ [transfer_calc |-> group_diff(sorted, i)]]

(***************************************************************************)
(* data_utils.py: _add_candidate_status.                                   *)
(***************************************************************************)
\* variant of status_of: the status with only the first of the tied winners Elected
status_first_winner(df, i) ==
    LET election_df == SelectSeq(df, LAMBDA r : r.election_id = df[i].election_id)
        final_round == SetMax({election_df[k].round : k \in 1..Len(election_df)})
        final_round_df == SelectSeq(election_df, LAMBDA r : r.round = final_round)
        max_votes == SetMax({final_round_df[k].votes : k \in 1..Len(final_round_df)})
        winners == SelectSeq(final_round_df, LAMBDA r : r.votes = max_votes)
    IN  IF df[i].round = final_round
        THEN (IF df[i].candidate_id = winners[1].candidate_id THEN "Elected" ELSE "Eliminated")
        ELSE (IF df[i].votes > 0 THEN "Continuing" ELSE "Eliminated")

\* variant of status_of: in the final round only a candidate with more votes
\* than every other is Elected
status_sole_winner(df, i) ==
    LET election_df == SelectSeq(df, LAMBDA r : r.election_id = df[i].election_id)
        final_round == SetMax({election_df[k].round : k \in 1..Len(election_df)})
        final_round_df == SelectSeq(election_df, LAMBDA r : r.round = final_round)
        max_votes == SetMax({final_round_df[k].votes : k \in 1..Len(final_round_df)})
        winner_ids == {final_round_df[k].candidate_id :
                          k \in {n \in 1..Len(final_round_df) :
                                    final_round_df[n].votes = max_votes}}
    IN  IF df[i].round = final_round
        THEN (IF winner_ids = {df[i].candidate_id} THEN "Elected" ELSE "Eliminated")
        ELSE (IF df[i].votes > 0 THEN "Continuing" ELSE "Eliminated")

\* variant of status_of: before the final round a candidate without votes is
\* still Continuing
status_continuing_without_votes(df, i) ==
    LET election_df == SelectSeq(df, LAMBDA r : r.election_id = df[i].election_id)
        final_round == SetMax({election_df[k].round : k \in 1..Len(election_df)})
        final_round_df == SelectSeq(election_df, LAMBDA r : r.round = final_round)
        max_votes == SetMax({final_round_df[k].votes : k \in 1..Len(final_round_df)})
        winner_ids == {final_round_df[k].candidate_id :
                          k \in {n \in 1..Len(final_round_df) :
                                    final_round_df[n].votes = max_votes}}
    IN  IF df[i].round = final_round
        THEN (IF df[i].candidate_id \in winner_ids THEN "Elected" ELSE "Eliminated")
        ELSE (IF df[i].votes >= 0 THEN "Continuing" ELSE "Eliminated")

\* the status of row i: in the final round of its election Elected for the ids
\* of the rows with the most votes and Eliminated for the others; before it
\* Continuing with votes and Eliminated without
status_of(df, i) ==
    LET election_df == SelectSeq(df, LAMBDA r : r.election_id = df[i].election_id)
        final_round == SetMax({election_df[k].round : k \in 1..Len(election_df)})
        final_round_df == SelectSeq(election_df, LAMBDA r : r.round = final_round)
        max_votes == SetMax({final_round_df[k].votes : k \in 1..Len(final_round_df)})
        winner_ids == {final_round_df[k].candidate_id :
                          k \in {n \in 1..Len(final_round_df) :
                                    final_round_df[n].votes = max_votes}}
    IN  IF df[i].round = final_round
        THEN (IF df[i].candidate_id \in winner_ids THEN "Elected" ELSE "Eliminated")
        ELSE (IF df[i].votes > 0 THEN "Continuing" ELSE "Eliminated")

_add_candidate_status(df) ==
    [i \in 1..Len(df) |-> df[i] @@ [status |-> status_of(df, i)]]

(***************************************************************************)
(* data_utils.py: clean_and_standardize_data.                              *)
(***************************************************************************)
\* the three cleaned frames, or raised = TRUE when compute_transfer_from_votes
\* raises (no candidate row is left with an election id)
clean_and_standardize_data(elections, candidates, rounds) ==
    LET std == _standardize_election_ids(_clean_elections(elections),
                                         _clean_candidates(candidates),
                                         _clean_rounds(rounds))
    IN  IF TransferRaises(std.candidates)
        THEN [raised |-> TRUE, elections |-> <<>>, candidates |-> <<>>, rounds |-> <<>>]
        ELSE [raised     |-> FALSE,
              elections  |-> std.elections,
              candidates |-> _add_candidate_status(
                                 compute_transfer_from_votes(std.candidates)),
              rounds     |-> std.rounds]

(***************************************************************************)
(* validation_utils.py: tier table and scorer.                             *)
(***************************************************************************)
TIER_RULES ==
    ("positive_transfer_balance" :> 3) @@
    ("single_winner_violation" :> 3) @@
    ("cands_gt_round_total" :> 3) @@
    ("large_neg_transfer_balance" :> 2) @@
    ("transfer_diff_large" :> 2) @@
    ("round_sequence_gap" :> 2) @@
    ("vote_monotonicity_violation" :> 1) @@
    ("cands_lt_round_total_gap" :> 1) @@
    ("transfer_diff_small" :> 1)

\* a flag name that is not a key of TIER_RULES
UnknownFlag == "unknown_flag"

\* Python's order of the flag names (str comparison), used by sorted()
FlagOrder ==
    << "cands_gt_round_total", "cands_lt_round_total_gap",
       "large_neg_transfer_balance", "positive_transfer_balance",
       "round_sequence_gap", "single_winner_violation",
       "transfer_diff_large", "transfer_diff_small",
       "unknown_flag", "vote_monotonicity_violation" >>

FlagLess(a, b) == IndexOf(FlagOrder, a) < IndexOf(FlagOrder, b)

\* variant of TierRulesGet: the lookup with weight 0 for a flag absent from the table
TierRulesGetDefaultZero(f) == IF f \in DOMAIN TIER_RULES THEN TIER_RULES[f] ELSE 0
\* TIER_RULES.get(f, 1)
TierRulesGet(f) == IF f \in DOMAIN TIER_RULES THEN TIER_RULES[f] ELSE 1

\* variant of _max_tier_from_flags: the minimum weight instead of the maximum
_min_tier_from_flags(flags) ==
    IF flags = <<>> THEN 0
    ELSE CHOOSE t \in {TierRulesGet(flags[i]) : i \in 1..Len(flags)} :
            \A i \in 1..Len(flags) : t <= TierRulesGet(flags[i])
_max_tier_from_flags(flags) ==
    IF flags = <<>> THEN 0
    ELSE SetMax({TierRulesGet(flags[i]) : i \in 1..Len(flags)})

\* sorted(set(...)) of flag names
RECURSIVE SortedFlags(_)
SortedFlags(S) ==
    IF S = {} THEN <<>>
    ELSE LET m == CHOOSE x \in S : \A y \in S \ {x} : FlagLess(x, y)
         IN  <<m>> \o SortedFlags(S \ {m})

score_election_from_flags(election_id, fl) ==
    LET kept  == {fl[i] : i \in {j \in 1..Len(fl) : fl[j] # NULL}}
        flags == SortedFlags(kept)
    IN  [election_id |-> election_id,
         tier        |-> _max_tier_from_flags(flags),
         flags       |-> flags]

(***************************************************************************)
(* validation_utils.py: classifiers.                                       *)
(***************************************************************************)
large_neg_transfer_abs == 1000
\* percent_large = 0.02, as a number of hundredths
percent_large_pct == 2

\* int(x / 100 * p): truncation toward zero
PercentOf(x, p) == IF x >= 0 THEN (x * p) \div 100 ELSE 0 - (((0 - x) * p) \div 100)

Max2(a, b) == IF a >= b THEN a ELSE b

\* variant of classify_transfer_balance: a sum equal to the threshold is not large
classify_transfer_balance_below(sum_transfer, round_total) ==
    IF sum_transfer > 0 THEN "positive_transfer_balance"
    ELSE IF sum_transfer < 0 - Max2(large_neg_transfer_abs, PercentOf(round_total, percent_large_pct))
         THEN "large_neg_transfer_balance"
         ELSE NULL

\* classify_transfer_balance without a round total (round_total=None): the
\* threshold is the fixed floor
classify_transfer_balance_no_total(sum_transfer) ==
    IF sum_transfer > 0 THEN "positive_transfer_balance"
    ELSE IF sum_transfer <= 0 - large_neg_transfer_abs
         THEN "large_neg_transfer_balance"
         ELSE NULL

\* variant of classify_transfer_balance: the classifier with a sum of 0 flagged as positive
classify_transfer_balance_nonneg(sum_transfer, round_total) ==
    IF sum_transfer >= 0 THEN "positive_transfer_balance"
    ELSE IF sum_transfer <= 0 - Max2(large_neg_transfer_abs, PercentOf(round_total, percent_large_pct))
         THEN "large_neg_transfer_balance"
         ELSE NULL
\* round_total is always given by compute_tier_based_scores
classify_transfer_balance(sum_transfer, round_total) ==
    IF sum_transfer > 0 THEN "positive_transfer_balance"
    ELSE IF sum_transfer <= 0 - Max2(large_neg_transfer_abs, PercentOf(round_total, percent_large_pct))
         THEN "large_neg_transfer_balance"
         ELSE NULL

classify_vote_consistency(cands_sum, round_total) ==
    IF cands_sum > round_total THEN "cands_gt_round_total"
    ELSE IF round_total - cands_sum > 0 THEN "cands_lt_round_total_gap"
    ELSE NULL

\* variant of flag_single_winner: no flag at all
flag_single_winner_none(violation_bool) == NULL

flag_single_winner(violation_bool) == IF violation_bool THEN "single_winner_violation" ELSE NULL
flag_round_sequence(violation_bool) == IF violation_bool THEN "round_sequence_gap" ELSE NULL
flag_monotonicity(violation_bool) == IF violation_bool THEN "vote_monotonicity_violation" ELSE NULL

(***************************************************************************)
(* validation_utils.py: compute_tier_based_scores.                         *)
(***************************************************************************)
\* sorted(S) of a set of integers
RECURSIVE SortedInts(_)
SortedInts(S) ==
    IF S = {} THEN <<>>
    ELSE LET m == CHOOSE x \in S : \A y \in S : x <= y
         IN  <<m>> \o SortedInts(S \ {m})

\* the flags of one election that has candidate rows and round rows
election_flags(election_id, election_candidates, election_rounds) ==
    LET final_round == SetMax({election_rounds[k].round : k \in 1..Len(election_rounds)})
        elected_count == Len(SelectSeq(election_candidates,
                                       LAMBDA r : str_lower(r.status) = "elected"))
        single == IF elected_count # 1 THEN <<flag_single_winner(TRUE)>> ELSE <<>>
        actual_rounds == SortedInts({election_rounds[k].round : k \in 1..Len(election_rounds)})
        sequence == IF actual_rounds # [k \in 1..final_round |-> k]
                    THEN <<flag_round_sequence(TRUE)>> ELSE <<>>
        round_nums == Unique([k \in 1..Len(election_rounds) |-> election_rounds[k].round])
        per_round(round_num) ==
            LET round_data == SelectSeq(election_rounds, LAMBDA r : r.round = round_num)
                round_total == round_data[1].total_votes
                round_candidates == SelectSeq(election_candidates, LAMBDA r : r.round = round_num)
                balance == classify_transfer_balance(
                               SumSeq([k \in 1..Len(round_candidates) |->
                                          round_candidates[k].transfer_calc]),
                               round_total)
                consistency == classify_vote_consistency(
                               SumSeq([k \in 1..Len(round_candidates) |->
                                          round_candidates[k].votes]),
                               round_total)
            IN  IF round_candidates = <<>> THEN <<>>
                ELSE (IF balance # NULL THEN <<balance>> ELSE <<>>)
                     \o (IF consistency # NULL THEN <<consistency>> ELSE <<>>)
    IN  single \o sequence \o Concat([k \in 1..Len(round_nums) |-> per_round(round_nums[k])])

\* '|'.join(flags)
RECURSIVE JoinPipe(_)
JoinPipe(parts) ==
    IF parts = <<>> THEN ""
    ELSE IF Len(parts) = 1 THEN parts[1]
    ELSE parts[1] \o "|" \o JoinPipe(Tail(parts))

\* variant of compute_tier_based_scores: an election id without candidate rows
\* or without round rows gets a row with tier 0 and no flags
compute_tier_based_scores_all(elections, candidates, rounds) ==
    LET ids == Unique([i \in 1..Len(elections) |-> elections[i].election_id])
        one(election_id) ==
            LET election_candidates == SelectSeq(candidates, LAMBDA r : r.election_id = election_id)
                election_rounds == SelectSeq(rounds, LAMBDA r : r.election_id = election_id)
                sc == IF election_candidates = <<>> \/ election_rounds = <<>>
                      THEN score_election_from_flags(election_id, <<>>)
                      ELSE score_election_from_flags(
                               election_id,
                               election_flags(election_id, election_candidates, election_rounds))
            IN  << sc @@ [flags_str |-> JoinPipe(sc.flags)] >>
    IN  Concat([i \in 1..Len(ids) |-> one(ids[i])])

\* one row per election id of the Contest frame that has candidate rows and
\* round rows; the others are skipped
compute_tier_based_scores(elections, candidates, rounds) ==
    LET ids == Unique([i \in 1..Len(elections) |-> elections[i].election_id])
        one(election_id) ==
            LET election_candidates == SelectSeq(candidates, LAMBDA r : r.election_id = election_id)
                election_rounds == SelectSeq(rounds, LAMBDA r : r.election_id = election_id)
            IN  IF election_candidates = <<>> \/ election_rounds = <<>> THEN <<>>
                ELSE LET sc == score_election_from_flags(
                                   election_id,
                                   election_flags(election_id, election_candidates, election_rounds))
                     IN  << sc @@ [flags_str |-> JoinPipe(sc.flags)] >>
    IN  Concat([i \in 1..Len(ids) |-> one(ids[i])])

(***************************************************************************)
(* validation_utils.py: the rule validators.  An issue is the message the  *)
(* code formats.                                                           *)
(***************************************************************************)
\* str(list) of a list of integers
RECURSIVE JoinComma(_)
JoinComma(parts) ==
    IF parts = <<>> THEN ""
    ELSE IF Len(parts) = 1 THEN parts[1]
    ELSE parts[1] \o ", " \o JoinComma(Tail(parts))

PyIntList(ns) == "[" \o JoinComma([k \in 1..Len(ns) |-> IntToStr(ns[k])]) \o "]"

\* str(list) of a list of str or NaN
PyStrList(xs) ==
    "[" \o JoinComma([k \in 1..Len(xs) |->
                        IF xs[k] = NULL THEN "nan" ELSE "'" \o xs[k] \o "'"]) \o "]"

\* s.find(sub) + 1: the position of the first occurrence, 0 when there is none
Find(s, sub) ==
    LET I == {k \in 1..(Len(s) - Len(sub) + 1) : SubSeq(s, k, k + Len(sub) - 1) = sub}
    IN  IF I = {} THEN 0 ELSE CHOOSE k \in I : \A m \in I : k <= m

\* sub in s
Contains(s, sub) == Find(s, sub) > 0

\* s.split(sep)[0]
BeforeFirst(s, sep) ==
    IF Find(s, sep) > 0 THEN SubSeq(s, 1, Find(s, sep) - 1) ELSE s

\* s.split(sep)[1] when sep occurs in s: what follows the first sep, up to the
\* next one
AfterFirst(s, sep) ==
    BeforeFirst(SubSeq(s, Find(s, sep) + Len(sep), Len(s)), sep)

PenaltyScore(n, per) == Max2(0, 100 - n * per)

Result(rule_name, passed, issues, sc) ==
    [rule_name |-> rule_name, passed |-> passed, issues |-> issues, score |-> sc]

\* the election ids of the candidate frame in order of first appearance
CandidateElectionIds(candidates) ==
    Unique([i \in 1..Len(candidates) |-> candidates[i].election_id])

_validate_data_completeness(elections, candidates, rounds) ==
    LET missing(df, name, field, Null(_)) ==
            LET n == Len(SelectSeq(df, LAMBDA r : Null(r[field])))
            IN  IF n > 0
                THEN <<IntToStr(n) \o " missing values in " \o name \o "." \o field>>
                ELSE <<>>
        isNull(v) == v = NULL
        never(v) == FALSE
        issues ==
            missing(elections, "elections", "election_id", isNull)
            \o missing(elections, "elections", "year", CellIsNaN)
            \o missing(elections, "elections", "state", isNull)
            \o missing(elections, "elections", "office", isNull)
            \o missing(elections, "elections", "juris", isNull)
            \o missing(elections, "elections", "election_type", isNull)
            \o missing(candidates, "candidates", "election_id", isNull)
            \o missing(candidates, "candidates", "candidate_id", isNull)
            \o missing(candidates, "candidates", "round", never)
            \o missing(candidates, "candidates", "votes", never)
            \o missing(candidates, "candidates", "percentage", CellIsNaN)
            \o missing(rounds, "rounds", "election_id", isNull)
            \o missing(rounds, "rounds", "round", never)
            \o missing(rounds, "rounds", "total_votes", never)
    IN  Result("Data Completeness", issues = <<>>, issues, PenaltyScore(Len(issues), 10))

\* variant of _validate_vote_consistency: every issue costs ten points
_validate_vote_consistency_all_issues(candidates, rounds) ==
    LET ids == CandidateElectionIds(candidates)
        check(election_id, round_num) ==
            LET round_candidates == SelectSeq(candidates,
                    LAMBDA r : r.election_id = election_id /\ r.round = round_num)
                round_total == SelectSeq(rounds,
                    LAMBDA r : r.election_id = election_id /\ r.round = round_num)[1].total_votes
                candidate_vote_sum == SumSeq([k \in 1..Len(round_candidates) |->
                                                 round_candidates[k].votes])
            IN  IF candidate_vote_sum > round_total
                THEN << "Vote count mismatch in " \o election_id \o " round "
                        \o IntToStr(round_num) \o ": candidates sum to "
                        \o IntToStr(candidate_vote_sum) \o ", round total is "
                        \o IntToStr(round_total)
                        \o " (candidates sum should not exceed round total)" >>
                ELSE IF round_total - candidate_vote_sum > 100
                THEN << "Large vote difference in " \o election_id \o " round "
                        \o IntToStr(round_num) \o ": candidates sum to "
                        \o IntToStr(candidate_vote_sum) \o ", round total is "
                        \o IntToStr(round_total) \o " (difference: "
                        \o IntToStr(round_total - candidate_vote_sum)
                        \o " votes - may include overvotes/undervotes/exhausted)" >>
                ELSE <<>>
        one(election_id) ==
            LET election_rounds == SelectSeq(rounds, LAMBDA r : r.election_id = election_id)
                round_nums == Unique([k \in 1..Len(election_rounds) |-> election_rounds[k].round])
            IN  Concat([k \in 1..Len(round_nums) |-> check(election_id, round_nums[k])])
        issues == Concat([i \in 1..Len(ids) |-> one(ids[i])])
        critical == SelectSeq(issues, LAMBDA s : Contains(s, "should not exceed"))
    IN  Result("Vote Consistency", critical = <<>>, issues,
               PenaltyScore(Len(issues), 10))

\* _validate_vote_consistency: per election id of the candidate frame and round
\* of its round rows, the votes of the candidates against the total of the
\* first round row
_validate_vote_consistency(candidates, rounds) ==
    LET ids == CandidateElectionIds(candidates)
        check(election_id, round_num) ==
            LET round_candidates == SelectSeq(candidates,
                    LAMBDA r : r.election_id = election_id /\ r.round = round_num)
                round_total == SelectSeq(rounds,
                    LAMBDA r : r.election_id = election_id /\ r.round = round_num)[1].total_votes
                candidate_vote_sum == SumSeq([k \in 1..Len(round_candidates) |->
                                                 round_candidates[k].votes])
            IN  IF candidate_vote_sum > round_total
                THEN << "Vote count mismatch in " \o election_id \o " round "
                        \o IntToStr(round_num) \o ": candidates sum to "
                        \o IntToStr(candidate_vote_sum) \o ", round total is "
                        \o IntToStr(round_total)
                        \o " (candidates sum should not exceed round total)" >>
                ELSE IF round_total - candidate_vote_sum > 100
                THEN << "Large vote difference in " \o election_id \o " round "
                        \o IntToStr(round_num) \o ": candidates sum to "
                        \o IntToStr(candidate_vote_sum) \o ", round total is "
                        \o IntToStr(round_total) \o " (difference: "
                        \o IntToStr(round_total - candidate_vote_sum)
                        \o " votes - may include overvotes/undervotes/exhausted)" >>
                ELSE <<>>
        one(election_id) ==
            LET election_rounds == SelectSeq(rounds, LAMBDA r : r.election_id = election_id)
                round_nums == Unique([k \in 1..Len(election_rounds) |-> election_rounds[k].round])
            IN  Concat([k \in 1..Len(round_nums) |-> check(election_id, round_nums[k])])
        issues == Concat([i \in 1..Len(ids) |-> one(ids[i])])
        critical == SelectSeq(issues, LAMBDA s : Contains(s, "should not exceed"))
    IN  Result("Vote Consistency", critical = <<>>, issues,
               IF critical # <<>> THEN PenaltyScore(Len(critical), 10)
               ELSE IF issues # <<>> THEN 95 ELSE 100)

\* variant of _validate_transfer_balance: a large negative sum fails the rule too
_validate_transfer_balance_strict(candidates) ==
    LET ids == CandidateElectionIds(candidates)
        check(election_id, round_num) ==
            LET round_data == SelectSeq(candidates,
                    LAMBDA r : r.election_id = election_id /\ r.round = round_num)
                transfer_sum == SumSeq([k \in 1..Len(round_data) |-> round_data[k].transfer_calc])
            IN  IF round_num = 1 THEN <<>>
                ELSE IF transfer_sum > 0
                THEN << "Transfer imbalance in " \o election_id \o " round "
                        \o IntToStr(round_num) \o ": sum = " \o IntToStr(transfer_sum)
                        \o " (should be <= 0, indicates votes appearing from nowhere)" >>
                ELSE IF transfer_sum < 0 - 100
                THEN << "Large negative transfer sum in " \o election_id \o " round "
                        \o IntToStr(round_num) \o ": sum = " \o IntToStr(transfer_sum)
                        \o " (may include many exhausted ballots/overvotes/undervotes)" >>
                ELSE <<>>
        one(election_id) ==
            LET election_data == SelectSeq(candidates, LAMBDA r : r.election_id = election_id)
                round_nums == Unique([k \in 1..Len(election_data) |-> election_data[k].round])
            IN  Concat([k \in 1..Len(round_nums) |-> check(election_id, round_nums[k])])
        issues == Concat([i \in 1..Len(ids) |-> one(ids[i])])
        critical == SelectSeq(issues, LAMBDA s : Contains(s, "should be <= 0"))
    IN  Result("Transfer Balance", issues = <<>>, issues,
               IF critical # <<>> THEN PenaltyScore(Len(critical), 10)
               ELSE IF issues # <<>> THEN 95 ELSE 100)

\* _validate_transfer_balance: per election id and round after the first of the
\* candidate frame, the sum of transfer_calc
_validate_transfer_balance(candidates) ==
    LET ids == CandidateElectionIds(candidates)
        check(election_id, round_num) ==
            LET round_data == SelectSeq(candidates,
                    LAMBDA r : r.election_id = election_id /\ r.round = round_num)
                transfer_sum == SumSeq([k \in 1..Len(round_data) |-> round_data[k].transfer_calc])
            IN  IF round_num = 1 THEN <<>>
                ELSE IF transfer_sum > 0
                THEN << "Transfer imbalance in " \o election_id \o " round "
                        \o IntToStr(round_num) \o ": sum = " \o IntToStr(transfer_sum)
                        \o " (should be <= 0, indicates votes appearing from nowhere)" >>
                ELSE IF transfer_sum < 0 - 100
                THEN << "Large negative transfer sum in " \o election_id \o " round "
                        \o IntToStr(round_num) \o ": sum = " \o IntToStr(transfer_sum)
                        \o " (may include many exhausted ballots/overvotes/undervotes)" >>
                ELSE <<>>
        one(election_id) ==
            LET election_data == SelectSeq(candidates, LAMBDA r : r.election_id = election_id)
                round_nums == Unique([k \in 1..Len(election_data) |-> election_data[k].round])
            IN  Concat([k \in 1..Len(round_nums) |-> check(election_id, round_nums[k])])
        issues == Concat([i \in 1..Len(ids) |-> one(ids[i])])
        critical == SelectSeq(issues, LAMBDA s : Contains(s, "should be <= 0"))
    IN  Result("Transfer Balance", critical = <<>>, issues,
               IF critical # <<>> THEN PenaltyScore(Len(critical), 10)
               ELSE IF issues # <<>> THEN 95 ELSE 100)

_validate_single_winner(candidates) ==
    LET ids == CandidateElectionIds(candidates)
        one(election_id) ==
            LET election_data == SelectSeq(candidates, LAMBDA r : r.election_id = election_id)
                final_round == SetMax({election_data[k].round : k \in 1..Len(election_data)})
                elected_candidates == SelectSeq(election_data,
                    LAMBDA r : r.round = final_round /\ r.status = "Elected")
            IN  IF Len(elected_candidates) = 0
                THEN << "Election " \o election_id \o ": No winner identified in final round "
                        \o IntToStr(final_round) >>
                ELSE IF Len(elected_candidates) > 1
                THEN << "Election " \o election_id
                        \o ": Multiple winners identified in final round "
                        \o IntToStr(final_round) \o ": "
                        \o PyStrList([k \in 1..Len(elected_candidates) |->
                                         elected_candidates[k].name]) >>
                ELSE <<>>
        issues == Concat([i \in 1..Len(ids) |-> one(ids[i])])
    IN  Result("Single Winner", issues = <<>>, issues, PenaltyScore(Len(issues), 10))

\* variant of _validate_vote_monotonicity: a drop is reported whatever the status
_validate_vote_monotonicity_any_status(candidates) ==
    LET ids == CandidateElectionIds(candidates)
        one(election_id) ==
            LET election_data == SelectSeq(candidates, LAMBDA r : r.election_id = election_id)
                cands == Unique([k \in 1..Len(election_data) |-> election_data[k].candidate_id])
                ofCand(candidate_id) ==
                    LET candidate_data == sort_values(SelectSeq(election_data,
                                              LAMBDA r : r.candidate_id = candidate_id))
                        at(k) ==
                            IF k > 1 /\ candidate_data[k].votes < candidate_data[k - 1].votes
                            THEN << "Vote monotonicity violation in " \o election_id
                                    \o " candidate " \o candidate_id \o ": Round "
                                    \o IntToStr(candidate_data[k].round - 1) \o ": "
                                    \o IntToStr(candidate_data[k - 1].votes)
                                    \o " votes, Round " \o IntToStr(candidate_data[k].round)
                                    \o ": " \o IntToStr(candidate_data[k].votes) \o " votes" >>
                            ELSE <<>>
                    IN  Concat([k \in 1..Len(candidate_data) |-> at(k)])
            IN  Concat([c \in 1..Len(cands) |-> ofCand(cands[c])])
        issues == Concat([i \in 1..Len(ids) |-> one(ids[i])])
    IN  Result("Vote Monotonicity", issues = <<>>, issues, PenaltyScore(Len(issues), 5))

\* _validate_vote_monotonicity: per candidate of an election, in order of round,
\* a record that is not Eliminated with fewer votes than the record before it
_validate_vote_monotonicity(candidates) ==
    LET ids == CandidateElectionIds(candidates)
        one(election_id) ==
            LET election_data == SelectSeq(candidates, LAMBDA r : r.election_id = election_id)
                cands == Unique([k \in 1..Len(election_data) |-> election_data[k].candidate_id])
                ofCand(candidate_id) ==
                    LET candidate_data == sort_values(SelectSeq(election_data,
                                              LAMBDA r : r.candidate_id = candidate_id))
                        at(k) ==
                            IF k > 1 /\ candidate_data[k].status # "Eliminated"
                               /\ candidate_data[k].votes < candidate_data[k - 1].votes
                            THEN << "Vote monotonicity violation in " \o election_id
                                    \o " candidate " \o candidate_id \o ": Round "
                                    \o IntToStr(candidate_data[k].round - 1) \o ": "
                                    \o IntToStr(candidate_data[k - 1].votes)
                                    \o " votes, Round " \o IntToStr(candidate_data[k].round)
                                    \o ": " \o IntToStr(candidate_data[k].votes) \o " votes" >>
                            ELSE <<>>
                    IN  Concat([k \in 1..Len(candidate_data) |-> at(k)])
            IN  Concat([c \in 1..Len(cands) |-> ofCand(cands[c])])
        issues == Concat([i \in 1..Len(ids) |-> one(ids[i])])
    IN  Result("Vote Monotonicity", issues = <<>>, issues, PenaltyScore(Len(issues), 5))

\* set(df["election_id"]), in a fixed order: the ids sorted, then one NaN for
\* every row without an id
IdList(S, nans) == SortedStrings(S) \o [k \in 1..nans |-> NULL]

\* variant of NullIds: the rows without an id are not counted
NullIdsIgnored(df) == 0

NullIds(df) == Len(SelectSeq(df, LAMBDA r : r.election_id = NULL))

_validate_election_id_consistency(elections, candidates, rounds) ==
    LET election_ids == ElectionIds(elections)
        candidate_election_ids == ElectionIds(candidates)
        round_election_ids == ElectionIds(rounds)
        missing_in_candidates == IdList(election_ids \ candidate_election_ids, 0)
        missing_in_rounds == IdList(election_ids \ round_election_ids, 0)
        extra_in_candidates == IdList(candidate_election_ids \ election_ids, NullIds(candidates))
        extra_in_rounds == IdList(round_election_ids \ election_ids, NullIds(rounds))
        issues ==
            (IF missing_in_candidates # <<>>
             THEN <<"Elections missing from candidates data: " \o PyStrList(missing_in_candidates)>>
             ELSE <<>>)
            \o (IF missing_in_rounds # <<>>
                THEN <<"Elections missing from rounds data: " \o PyStrList(missing_in_rounds)>>
                ELSE <<>>)
            \o (IF extra_in_candidates # <<>>
                THEN <<"Extra elections in candidates data: " \o PyStrList(extra_in_candidates)>>
                ELSE <<>>)
            \o (IF extra_in_rounds # <<>>
                THEN <<"Extra elections in rounds data: " \o PyStrList(extra_in_rounds)>>
                ELSE <<>>)
    IN  Result("Election ID Consistency", issues = <<>>, issues, PenaltyScore(Len(issues), 10))

\* variant of _validate_round_sequence: the rounds of the round frame are not compared
_validate_round_sequence_candidates_only(candidates, rounds) ==
    LET ids == CandidateElectionIds(candidates)
        one(election_id) ==
            LET election_candidates == SelectSeq(candidates, LAMBDA r : r.election_id = election_id)
                election_rounds == SelectSeq(rounds, LAMBDA r : r.election_id = election_id)
                candidate_rounds == SortedInts({election_candidates[k].round :
                                                   k \in 1..Len(election_candidates)})
                round_numbers == SortedInts({election_rounds[k].round :
                                                k \in 1..Len(election_rounds)})
            IN  (IF candidate_rounds[1] # 1
                 THEN << "Election " \o election_id \o ": rounds don't start from 1 (starts with "
                         \o IntToStr(candidate_rounds[1]) \o ")" >>
                 ELSE <<>>)
                \o (IF candidate_rounds # [k \in 1..candidate_rounds[Len(candidate_rounds)] |-> k]
                    THEN << "Election " \o election_id \o ": non-sequential rounds: "
                            \o PyIntList(candidate_rounds) >>
                    ELSE <<>>)
        issues == Concat([i \in 1..Len(ids) |-> one(ids[i])])
    IN  Result("Round Sequence", issues = <<>>, issues, PenaltyScore(Len(issues), 10))

\* _validate_round_sequence: per election id of the candidate frame, its rounds
\* against 1..max and against the rounds of the round frame
_validate_round_sequence(candidates, rounds) ==
    LET ids == CandidateElectionIds(candidates)
        one(election_id) ==
            LET election_candidates == SelectSeq(candidates, LAMBDA r : r.election_id = election_id)
                election_rounds == SelectSeq(rounds, LAMBDA r : r.election_id = election_id)
                candidate_rounds == SortedInts({election_candidates[k].round :
                                                   k \in 1..Len(election_candidates)})
                round_numbers == SortedInts({election_rounds[k].round :
                                                k \in 1..Len(election_rounds)})
            IN  (IF candidate_rounds[1] # 1
                 THEN << "Election " \o election_id \o ": rounds don't start from 1 (starts with "
                         \o IntToStr(candidate_rounds[1]) \o ")" >>
                 ELSE <<>>)
                \o (IF candidate_rounds # [k \in 1..candidate_rounds[Len(candidate_rounds)] |-> k]
                    THEN << "Election " \o election_id \o ": non-sequential rounds: "
                            \o PyIntList(candidate_rounds) >>
                    ELSE <<>>)
                \o (IF round_numbers # candidate_rounds
                    THEN << "Election " \o election_id \o ": round mismatch between candidates ("
                            \o PyIntList(candidate_rounds) \o ") and rounds ("
                            \o PyIntList(round_numbers) \o ")" >>
                    ELSE <<>>)
        issues == Concat([i \in 1..Len(ids) |-> one(ids[i])])
    IN  Result("Round Sequence", issues = <<>>, issues, PenaltyScore(Len(issues), 10))

\* the seven rules in the order validate_election_data runs them
RuleNames ==
    << "data_completeness", "vote_consistency", "transfer_balance", "single_winner",
       "vote_monotonicity", "election_id_consistency", "round_sequence" >>

\* variant of _calculate_overall_score: the first rule counts twice
_calculate_overall_score_weighted(validation_rules) ==
    [total |-> SumSeq([k \in 1..Len(RuleNames) |-> validation_rules[RuleNames[k]].score])
               + validation_rules[RuleNames[1]].score,
     count |-> Len(RuleNames) + 1]

\* total_score / len(validation_rules), kept as the fraction total / count
_calculate_overall_score(validation_rules) ==
    [total |-> SumSeq([k \in 1..Len(RuleNames) |-> validation_rules[RuleNames[k]].score]),
     count |-> Len(RuleNames)]

\* variant of _identify_problematic_elections: the text after "Election " is
\* taken whole, not cut at the colon
_identify_problematic_elections_uncut(validation_rules) ==
    LET issues == Concat([k \in 1..Len(RuleNames) |->
                            IF validation_rules[RuleNames[k]].passed THEN <<>>
                            ELSE validation_rules[RuleNames[k]].issues])
        scraped == SelectSeq(issues, LAMBDA s : Contains(str_lower(s), "election")
                                                /\ Contains(s, "Election "))
    IN  Unique([k \in 1..Len(scraped) |-> str_strip(AfterFirst(scraped[k], "Election "))])

\* the ids scraped from the issues of the failed rules
_identify_problematic_elections(validation_rules) ==
    LET issues == Concat([k \in 1..Len(RuleNames) |->
                            IF validation_rules[RuleNames[k]].passed THEN <<>>
                            ELSE validation_rules[RuleNames[k]].issues])
        scraped == SelectSeq(issues, LAMBDA s : Contains(str_lower(s), "election")
                                                /\ Contains(s, "Election "))
    IN  Unique([k \in 1..Len(scraped) |->
                  str_strip(BeforeFirst(AfterFirst(scraped[k], "Election "), ":"))])

validate_election_data(elections, candidates, rounds) ==
    LET validation_rules ==
            [data_completeness |-> _validate_data_completeness(elections, candidates, rounds),
             vote_consistency |-> _validate_vote_consistency(candidates, rounds),
             transfer_balance |-> _validate_transfer_balance(candidates),
             single_winner |-> _validate_single_winner(candidates),
             vote_monotonicity |-> _validate_vote_monotonicity(candidates),
             election_id_consistency |->
                 _validate_election_id_consistency(elections, candidates, rounds),
             round_sequence |-> _validate_round_sequence(candidates, rounds)]
    IN  [total_elections |-> Len(elections),
         total_candidates |-> Len(candidates),
         total_rounds |-> Len(rounds),
         validation_rules |-> validation_rules,
         overall_score |-> _calculate_overall_score(validation_rules),
         problematic_elections |-> _identify_problematic_elections(validation_rules),
         election_scores |-> compute_tier_based_scores(elections, candidates, rounds)]

(***************************************************************************)
(* Tier scorer specification: every flag list up to MaxFlags entries.      *)
(***************************************************************************)
MaxFlags == 3

FlagValues == DOMAIN TIER_RULES \cup {UnknownFlag, NULL}

TierOff == tpc = "off" /\ flags_list = <<>> /\ score = NULL /\ score2 = NULL
IdOff == ipc = "off" /\ row = NULL /\ std_id = NULL
ClassOff ==
    /\ cpc = "off"
    /\ class_sum = NULL /\ class_total = NULL /\ larger_total = NULL
    /\ class_flag = NULL /\ class_flag_larger = NULL
PipeOff ==
    /\ pc = "off"
    /\ elections_df = <<>> /\ candidates_df = <<>> /\ rounds_df = <<>>
    /\ transferred = NULL /\ cleaned = NULL /\ validation_results = NULL
    /\ recleaned = NULL

TierInit ==
    /\ tpc = "input"
    /\ flags_list \in SeqsUpTo(FlagValues, MaxFlags)
    /\ score = NULL
    /\ score2 = NULL
    /\ IdOff
    /\ ClassOff
    /\ PipeOff

ScoreElection ==
    /\ tpc = "input"
    /\ score' = score_election_from_flags("E", flags_list)
    /\ tpc' = "scored"
    /\ UNCHANGED <<flags_list, score2, idVars, classVars, pipeVars>>

ScoreWithAddedFlag ==
    /\ tpc = "scored"
    /\ \E f \in FlagValues :
          score2' = [added  |-> f,
                     result |-> score_election_from_flags("E", Append(flags_list, f))]
    /\ tpc' = "rescored"
    /\ UNCHANGED <<flags_list, score, idVars, classVars, pipeVars>>

TierNext == ScoreElection \/ ScoreWithAddedFlag

SpecTier == TierInit /\ [][TierNext]_vars

(***************************************************************************)
(* Balance classifier specification: sums and round totals around the      *)
(* fixed floor and around the totals where two percent pass it.            *)
(***************************************************************************)
SumInputs ==
    {1, 0, 0 - 1, 0 - 999, 0 - 1000, 0 - 1001, 0 - 1099, 0 - 1100, 0 - 1101,
     0 - 1199, 0 - 1200, 0 - 1201, 0 - 2000}

TotalInputs ==
    {0, 100, 49999, 50000, 50049, 50050, 54999, 55000, 55049, 55050, 59999,
     60000, 60050, 100000}

\* a round total handed over, or none
Given(t) == [given |-> TRUE, v |-> t]
NotGiven == [given |-> FALSE, v |-> 0]

ClassInit ==
    /\ cpc = "input"
    /\ class_sum \in SumInputs
    /\ \/ /\ class_total \in {Given(t) : t \in TotalInputs}
          /\ larger_total \in {t \in TotalInputs : t >= class_total.v}
       \/ /\ class_total = NotGiven
          /\ larger_total \in TotalInputs
    /\ class_flag = NULL
    /\ class_flag_larger = NULL
    /\ TierOff
    /\ IdOff
    /\ PipeOff

Classify ==
    /\ cpc = "input"
    /\ class_flag' = IF class_total.given
                     THEN classify_transfer_balance(class_sum, class_total.v)
                     ELSE classify_transfer_balance_no_total(class_sum)
    /\ class_flag_larger' = classify_transfer_balance(class_sum, larger_total)
    /\ cpc' = "classified"
    /\ UNCHANGED <<class_sum, class_total, larger_total, tierVars, idVars, pipeVars>>

ClassNext == Classify

SpecClassify == ClassInit /\ [][ClassNext]_vars

(***************************************************************************)
(* Id canonicaliser specification: _create_standard_election_id on Contest *)
(* rows drawn from small sets of metadata values.                          *)
(***************************************************************************)
OfficeInputs == {"Mayor", "City Council", " U.S. House ", "County Clerk"}
JurisInputs == {"St. Louis City", "Oakland", "new york", NULL}
DistInputs == {"at_large", "At_Large", "5", "012", "D3"}
TypeInputs == {"general", "Primary", "special", "runoff"}
PartyInputs == {NULL, "Democratic", " republican", "gr"}
StateInputs == {"MO", "CA"}
YearInputs == {IntCell(2021), FloatCell(2021), NaNCell}

ContestRows ==
    [office : OfficeInputs, juris : JurisInputs, dist : DistInputs,
     election_type : TypeInputs, prm_party : PartyInputs,
     state : StateInputs, year : YearInputs]

IdInit ==
    /\ ipc = "input"
    /\ row \in ContestRows
    /\ std_id = NULL
    /\ TierOff
    /\ ClassOff
    /\ PipeOff

CreateStandardId ==
    /\ ipc = "input"
    /\ std_id' = create_standard_election_id(row)
    /\ ipc' = "done"
    /\ UNCHANGED <<row, tierVars, classVars, pipeVars>>

IdNext == CreateStandardId

SpecId == IdInit /\ [][IdNext]_vars

\* the Contest row of scenario C
ScenarioC ==
    /\ row.juris = "St. Louis City"
    /\ row.office = "Mayor"
    /\ row.election_type = "general"
    /\ row.dist = "at_large"

\* C10 as stated: the canonical id of the scenario C contest ends in
\* StLouisCity_AtLarge_Mayor.
C10_AsStated ==
    (ipc = "done" /\ ScenarioC) => EndsWith(std_id, "StLouisCity_AtLarge_Mayor")

\* C10 amended: the canonical id of the scenario C contest ends in
\* Stlouiscity_At_Large_Mayor: title() runs after the spaces are removed, so only
\* the first letter of the jurisdiction slug is a capital, and the at-large
\* district slug is At_Large.
C10_ScenarioC ==
    (ipc = "done" /\ ScenarioC) => EndsWith(std_id, "_G_Stlouiscity_At_Large_Mayor")

\* C10 witness: the scenario C contest of Missouri 2021 has been canonicalised.
C10_Witness ==
    /\ ipc = "done"
    /\ ScenarioC
    /\ std_id = "MO_2021_G_Stlouiscity_At_Large_Mayor"

(***************************************************************************)
(* Pipeline specification: clean_and_standardize_data, then                *)
(* validate_election_data, then clean_and_standardize_data again on the    *)
(* cleaned frames; compute_transfer_from_votes also runs on the raw        *)
(* candidate frame.  The raw frames are drawn from four families.          *)
(***************************************************************************)
MaxVotes == 2
MaxRows == 3
MaxElections == 2

MetaStLouis ==
    [state |-> "MO", year |-> IntCell(2021), office |-> "Mayor",
     juris |-> "St. Louis City", dist |-> "at_large", election_type |-> "general",
     prm_party |-> NULL, n_rounds |-> 3]
\* other raw text, same canonical id
MetaStLouisAlt == [MetaStLouis EXCEPT !.juris = "St Louis city", !.dist = "At_Large"]
MetaOakland ==
    [state |-> "CA", year |-> IntCell(2022), office |-> "City Council",
     juris |-> "Oakland", dist |-> "3", election_type |-> "Primary",
     prm_party |-> "Democratic", n_rounds |-> 2]
MetaNoYear == [MetaOakland EXCEPT !.year = NaNCell]
MetaNoState == [MetaOakland EXCEPT !.state = NULL]

Election(election_id, meta) == meta @@ [election_id |-> election_id]

CandidateRow(election_id, candidate_id, name, round, votes, transfer) ==
    [election_id |-> election_id, candidate_id |-> candidate_id, name |-> name,
     round |-> round, votes |-> votes, percentage |-> IntCell(50), transfer |-> transfer]

RoundRow(election_id, round, total_votes) ==
    [election_id |-> election_id, round |-> round, total_votes |-> total_votes,
     exhausted |-> 0, overvotes |-> 0]

\* candidates in the order the extraction writes them: first seen is not first
\* in id order
CandIds == <<"b_y", "a_x">>
CandName(c) == IF c = "a_x" THEN "Ann" ELSE "Bob"

\* Family 1: one contest, two candidates, the rounds of GridRounds; every
\* (candidate, round) cell is absent or holds 0..MaxVotes votes
GridRounds == <<1, 2>>
Absent == [t |-> "absent", v |-> 0]
CellInputs == {Absent} \cup {IntCell(v) : v \in 0..MaxVotes}

GridCandidates(cells) ==
    Concat([c \in 1..Len(CandIds) |->
              Concat([r \in 1..Len(GridRounds) |->
                        IF cells[<<c, r>>] = Absent THEN <<>>
                        ELSE <<CandidateRow("e1", CandIds[c], CandName(CandIds[c]),
                                            GridRounds[r], cells[<<c, r>>], "+1")>>])])

InitGrid ==
    /\ elections_df = <<Election("e1", MetaStLouis)>>
    /\ \E cells \in [(1..Len(CandIds)) \X (1..Len(GridRounds)) -> CellInputs] :
          candidates_df = GridCandidates(cells)
    /\ rounds_df = [r \in 1..Len(GridRounds) |-> RoundRow("e1", GridRounds[r], MaxVotes + 1)]

\* Family 2: one contest; up to MaxRows candidate rows in any order from a fixed
\* set: duplicate keys, a gap, a round outside 1..max, votes that are not a
\* number, rows without a name, a row of an unknown contest, a row without id
RowInputs ==
    { CandidateRow("e1", "a_x", "Ann", 1, IntCell(2), "+5"),
      CandidateRow("e1", "a_x", NULL, 1, IntCell(1), NULL),
      CandidateRow("e1", "a_x", "Ann", 3, IntCell(1), "-1"),
      CandidateRow("e1", "b_y", NULL, 2, IntCell(2), NULL),
      CandidateRow("e1", "b_y", NULL, 0, IntCell(1), "0"),
      CandidateRow("e1", "b_y", "Bob", 1, NaNCell, "abc"),
      CandidateRow("e9", "a_x", "Zed", 1, IntCell(1), "+5"),
      CandidateRow(NULL, "a_x", "Ann", 2, IntCell(1), "+5") }

InitRows ==
    /\ elections_df = <<Election("e1", MetaStLouis)>>
    /\ candidates_df \in SeqsUpTo(RowInputs, MaxRows)
    /\ rounds_df = <<RoundRow("e1", 1, 3), RoundRow("e1", 2, 3), RoundRow("e9", 1, 3)>>

\* Family 3: up to MaxElections Contest rows with raw ids e1, e2 and any of the
\* metadata above (two raw contests may share metadata, a row may lack its
\* state or year); fixed candidate and round rows for e1 and e2
ElectionInputs ==
    {Election(id, meta) :
        id \in {"e1", "e2"},
        meta \in {MetaStLouis, MetaStLouisAlt, MetaOakland, MetaNoYear, MetaNoState}}

InitIds ==
    /\ elections_df \in SeqsUpTo(ElectionInputs, MaxElections)
    /\ candidates_df =
          << CandidateRow("e1", "b_y", "Bob", 1, IntCell(2), NULL),
             CandidateRow("e1", "b_y", "Bob", 2, IntCell(3), "+1"),
             CandidateRow("e1", "a_x", "Ann", 1, IntCell(3), NULL),
             CandidateRow("e1", "a_x", "Ann", 2, IntCell(3), "0"),
             CandidateRow("e2", "a_x", "Ann", 1, IntCell(1), NULL),
             CandidateRow("e2", "c_z", "Cal", 1, IntCell(4), NULL),
             CandidateRow("e2", "c_z", "Cal", 3, IntCell(5), "+1") >>
    /\ rounds_df =
          << RoundRow("e1", 1, 5), RoundRow("e1", 2, 6),
             RoundRow("e2", 1, 5), RoundRow("e2", 2, 5), RoundRow("e2", 3, 5) >>

\* Family 4: the scenarios of the specification.  Scenario A: A(100, 70, 0),
\* B(50, 80, 120), round totals (160, 150, 120); A's round 3 row is written
\* with 0 votes or left out.  Scenario B: a final round tied at 100 votes.
ScenarioACandidates(withZeroRow) ==
    << CandidateRow("e1", "A", "A", 1, IntCell(100), NULL),
       CandidateRow("e1", "A", "A", 2, IntCell(70), "-30") >>
    \o (IF withZeroRow THEN <<CandidateRow("e1", "A", "A", 3, IntCell(0), "-70")>> ELSE <<>>)
    \o << CandidateRow("e1", "B", "B", 1, IntCell(50), NULL),
          CandidateRow("e1", "B", "B", 2, IntCell(80), "+30"),
          CandidateRow("e1", "B", "B", 3, IntCell(120), "+40") >>

ScenarioARounds == <<RoundRow("e1", 1, 160), RoundRow("e1", 2, 150), RoundRow("e1", 3, 120)>>

ScenarioBCandidates ==
    << CandidateRow("e1", "A", "A", 1, IntCell(90), NULL),
       CandidateRow("e1", "A", "A", 2, IntCell(100), "+10"),
       CandidateRow("e1", "B", "B", 1, IntCell(80), NULL),
       CandidateRow("e1", "B", "B", 2, IntCell(100), "+20"),
       CandidateRow("e1", "C", "C", 1, IntCell(30), NULL) >>

ScenarioBRounds == <<RoundRow("e1", 1, 200), RoundRow("e1", 2, 200)>>

InitScenario ==
    /\ elections_df = <<Election("e1", MetaStLouis)>>
    /\ \/ /\ \E withZeroRow \in BOOLEAN : candidates_df = ScenarioACandidates(withZeroRow)
          /\ rounds_df = ScenarioARounds
       \/ /\ candidates_df = ScenarioBCandidates
          /\ rounds_df = ScenarioBRounds

\* Family 5: one contest e1 with two candidates over two rounds; the candidate
\* records and a round record of the raw id e9, and one of each without an id,
\* may be present; e9 may or may not have a Contest row; the round total of e9
\* is more than a hundred votes above the votes of its candidate, who loses
\* more than a hundred votes in round 2

OrphanCandidates(withE9, withNull) ==
    << CandidateRow("e1", "a_x", "Ann", 1, IntCell(2), NULL),
       CandidateRow("e1", "a_x", "Ann", 2, IntCell(1), "-1"),
       CandidateRow("e1", "b_y", "Bob", 1, IntCell(1), NULL),
       CandidateRow("e1", "b_y", "Bob", 2, IntCell(2), "+1") >>
    \o (IF withE9 THEN <<CandidateRow("e9", "c_z", "Cal", 1, IntCell(150), NULL),
                          CandidateRow("e9", "c_z", "Cal", 2, IntCell(1), "-149")>>
        ELSE <<>>)
    \o (IF withNull THEN <<CandidateRow(NULL, "c_z", "Cal", 1, IntCell(1), NULL)>> ELSE <<>>)

OrphanRounds(withE9, withNull) ==
    << RoundRow("e1", 1, 3), RoundRow("e1", 2, 3) >>
    \o (IF withE9 THEN <<RoundRow("e9", 1, 300)>> ELSE <<>>)
    \o (IF withNull THEN <<RoundRow(NULL, 1, 1)>> ELSE <<>>)

InitOrphans ==
    /\ elections_df \in { <<Election("e1", MetaStLouis)>>,
                          <<Election("e1", MetaStLouis), Election("e9", MetaOakland)>> }
    /\ \E withE9, withNull \in BOOLEAN : candidates_df = OrphanCandidates(withE9, withNull)
    /\ \E withE9, withNull \in BOOLEAN : rounds_df = OrphanRounds(withE9, withNull)

Init ==
    /\ pc = "raw"
    /\ InitGrid \/ InitRows \/ InitIds \/ InitScenario \/ InitOrphans
    /\ transferred = NULL
    /\ cleaned = NULL
    /\ validation_results = NULL
    /\ recleaned = NULL
    /\ TierOff
    /\ IdOff
    /\ ClassOff

\* the tuple clean_and_standardize_data returns
Frames(result) ==
    [elections |-> result.elections, candidates |-> result.candidates,
     rounds |-> result.rounds]

\* compute_transfer_from_votes(candidates_df) on the raw candidate frame
ComputeTransfer ==
    /\ pc = "raw"
    /\ IF TransferRaises(candidates_df)
       THEN pc' = "failed" /\ transferred' = transferred
       ELSE pc' = "transferred" /\ transferred' = compute_transfer_from_votes(candidates_df)
    /\ UNCHANGED <<inputVars, cleaned, validation_results, recleaned, tierVars, idVars, classVars>>

\* clean_and_standardize_data(elections_df, candidates_df, rounds_df)
Clean ==
    /\ pc = "raw"
    /\ LET result == clean_and_standardize_data(elections_df, candidates_df, rounds_df)
       IN  IF result.raised
           THEN pc' = "failed" /\ cleaned' = cleaned
           ELSE pc' = "cleaned" /\ cleaned' = Frames(result)
    /\ UNCHANGED <<inputVars, transferred, validation_results, recleaned, tierVars, idVars, classVars>>

\* validate_election_data on the cleaned frames
Validate ==
    /\ pc = "cleaned"
    /\ validation_results' =
          validate_election_data(cleaned.elections, cleaned.candidates, cleaned.rounds)
    /\ pc' = "validated"
    /\ UNCHANGED <<inputVars, transferred, cleaned, recleaned, tierVars, idVars, classVars>>

\* the cleaned candidate frame read back as a frame: votes is a numeric column
AsFrame(candidates) ==
    [i \in 1..Len(candidates) |-> [candidates[i] EXCEPT !.votes = IntCell(@)]]

\* clean_and_standardize_data on its own output
Reclean ==
    /\ pc = "validated"
    /\ LET result == clean_and_standardize_data(
                          cleaned.elections, AsFrame(cleaned.candidates), cleaned.rounds)
       IN  IF result.raised
           THEN pc' = "reclean_failed" /\ recleaned' = recleaned
           ELSE pc' = "recleaned" /\ recleaned' = Frames(result)
    /\ UNCHANGED <<inputVars, transferred, cleaned, validation_results, tierVars, idVars, classVars>>

Next == ComputeTransfer \/ Clean \/ Validate \/ Reclean

Spec == Init /\ [][Next]_vars

\* the non-null entries of the input flag list
GivenFlags == {flags_list[i] : i \in {j \in 1..Len(flags_list) : flags_list[j] # NULL}}

\* C5: tier monotonicity: the tier computed for F plus one more flag f (known,
\* unknown or null) is never lower than the tier computed for F.
C5_TierMonotone ==
    tpc = "rescored" => score2.result.tier >= score.tier

\* C5 witness: a flag was added to a non-empty list and the tier rose.
C5_Witness ==
    /\ tpc = "rescored"
    /\ flags_list # <<>>
    /\ score.tier = 1
    /\ score2.added = "round_sequence_gap"
    /\ score2.result.tier = 2

\* C6: the tier is 0 for an empty or all-null list, and otherwise the maximum
\* static weight of the distinct non-null flags (1 for a flag absent from the
\* table); it lies in 0..3; the returned list is sorted, without duplicates or
\* nulls, and holds exactly the non-null flags given.
C6_TierIsMaxWeight ==
    tpc = "scored" =>
        LET W == {IF f \in DOMAIN TIER_RULES THEN TIER_RULES[f] ELSE 1 : f \in GivenFlags}
        IN  /\ (GivenFlags = {} => score.tier = 0)
            /\ (GivenFlags # {} => score.tier \in W /\ \A w \in W : w <= score.tier)
            /\ score.tier \in 0..3
            /\ \A i \in 1..Len(score.flags) : score.flags[i] # NULL
            /\ \A i, j \in 1..Len(score.flags) :
                   i < j => FlagLess(score.flags[i], score.flags[j])
            /\ Range(score.flags) = GivenFlags

\* C6 witness: a list with a null, a duplicate and only an unknown flag scored 1.
C6_Witness ==
    /\ tpc = "scored"
    /\ flags_list = <<UnknownFlag, NULL, UnknownFlag>>
    /\ score.tier = 1
    /\ score.flags = <<UnknownFlag>>

(***************************************************************************)
(* Properties of the reconstructed candidate x round grid.                 *)
(***************************************************************************)
\* clean_and_standardize_data has returned
Cleaned == pc \in {"cleaned", "validated", "recleaned", "reclean_failed"}

\* the frame compute_transfer_from_votes returned, directly or inside the pipeline
Reconstructed ==
    IF pc = "transferred" THEN transferred
    ELSE IF Cleaned THEN cleaned.candidates
    ELSE <<>>

\* the frame compute_transfer_from_votes was given
ReconstructionInput ==
    IF pc = "transferred" THEN candidates_df
    ELSE IF Cleaned
    THEN _standardize_election_ids(_clean_elections(elections_df),
                                   _clean_candidates(candidates_df),
                                   _clean_rounds(rounds_df)).candidates
    ELSE <<>>

\* the rows of a contest in a round
RoundRows(df, eid, r) == SelectSeq(df, LAMBDA x : x.election_id = eid /\ x.round = r)

SumTransfer(df, eid, r) ==
    SumSeq([k \in 1..Len(RoundRows(df, eid, r)) |-> RoundRows(df, eid, r)[k].transfer_calc])

SumVotes(df, eid, r) ==
    SumSeq([k \in 1..Len(RoundRows(df, eid, r)) |-> RoundRows(df, eid, r)[k].votes])

\* round_count: the maximum round observed in a contest
RoundCount(df, eid) ==
    SetMax({df[i].round : i \in {j \in 1..Len(df) : df[j].election_id = eid}})

\* C1: every round-1 record of the reconstructed grid has transfer_calc = 0,
\* after compute_transfer_from_votes alone, after the pipeline, and after the
\* pipeline has run again on its own output.
C1_RoundOneZero ==
    /\ \A i \in 1..Len(Reconstructed) :
          Reconstructed[i].round = 1 => Reconstructed[i].transfer_calc = 0
    /\ pc = "recleaned" =>
          \A i \in 1..Len(recleaned.candidates) :
             recleaned.candidates[i].round = 1 => recleaned.candidates[i].transfer_calc = 0

\* C1 witness: the pipeline returned a round-1 record with 2 votes and
\* transfer_calc 0 for a raw record that carried the transfer "+5".
C1_Witness ==
    /\ pc = "cleaned"
    /\ \E j \in 1..Len(candidates_df) :
          /\ candidates_df[j].round = 1
          /\ candidates_df[j].transfer = "+5"
          /\ candidates_df[j].votes = IntCell(2)
          /\ \E i \in 1..Len(cleaned.candidates) :
                /\ cleaned.candidates[i].candidate_id = candidates_df[j].candidate_id
                /\ cleaned.candidates[i].round = 1
                /\ cleaned.candidates[i].votes = 2
                /\ cleaned.candidates[i].transfer_calc = 0

\* C2: conservation: in every contest of the reconstructed grid and every
\* round r with 2 <= r <= round_count, the transfer_calc of the round sum to
\* the votes of round r minus the votes of round r - 1.
C2_Conservation ==
    \A eid \in ElectionIds(Reconstructed) :
       \A r \in 2..RoundCount(Reconstructed, eid) :
          SumTransfer(Reconstructed, eid, r) =
              SumVotes(Reconstructed, eid, r) - SumVotes(Reconstructed, eid, r - 1)

\* C2 witness: a contest whose round 3 holds a zero-filled record (no input
\* record has its key) and a transfer sum different from 0.
C2_Witness ==
    /\ pc = "transferred"
    /\ \E i \in 1..Len(transferred) :
          /\ transferred[i].round = 3
          /\ \A j \in 1..Len(candidates_df) : ~SameKey(candidates_df[j], transferred[i])
          /\ SumTransfer(transferred, transferred[i].election_id, 3) # 0

\* C3: density: no key (contest, candidate, round) occurs twice in the
\* reconstructed grid, and every candidate of an input record of a contest has
\* exactly the rounds 1..round_count of that contest, round_count being the
\* maximum round of the contest's input records; the grid holds nothing else.
C3_Density ==
    LET out == Reconstructed
        inp == ReconstructionInput
    IN  /\ \A i, j \in 1..Len(out) : i < j => ~SameKey(out[i], out[j])
        /\ \A j \in 1..Len(inp) :
              inp[j].election_id # NULL =>
                 {out[i].round : i \in {k \in 1..Len(out) : SameGroup(out[k], inp[j])}}
                    = 1..RoundCount(inp, inp[j].election_id)
        /\ \A i \in 1..Len(out) : \E j \in 1..Len(inp) : SameGroup(inp[j], out[i])

\* C3 witness: the input has a duplicate key, a gap (round 1 and round 3 only)
\* and the grid has the three rounds of the candidate once each.
C3_Witness ==
    /\ pc = "transferred"
    /\ \E i, j \in 1..Len(candidates_df) : i < j /\ SameKey(candidates_df[i], candidates_df[j])
    /\ {candidates_df[i].round : i \in 1..Len(candidates_df)} = {1, 3}
    /\ Len(transferred) = 3
    /\ {transferred[i].round : i \in 1..Len(transferred)} = {1, 2, 3}

(***************************************************************************)
(* Running the pipeline on its own output.                                 *)
(***************************************************************************)
\* the (contest, candidate, round) records of a frame with their transfer_calc
\* and status
Records(df) ==
    {<<df[i].election_id, df[i].candidate_id, df[i].round, df[i].transfer_calc, df[i].status>> :
        i \in 1..Len(df)}

\* the second run returned the contest ids, transfer_calc and status of the first
SameAsFirstRun ==
    /\ ElectionIds(recleaned.elections) = ElectionIds(cleaned.elections)
    /\ ElectionIds(recleaned.candidates) = ElectionIds(cleaned.candidates)
    /\ ElectionIds(recleaned.rounds) = ElectionIds(cleaned.rounds)
    /\ LET again == _clean_elections(cleaned.elections)
       IN  \A i \in 1..Len(again) :
              create_standard_election_id(again[i]) = again[i].election_id
    /\ Records(recleaned.candidates) = Records(cleaned.candidates)
    /\ Len(recleaned.candidates) = Len(cleaned.candidates)

\* C4 as stated: for every input the pipeline accepts, the pipeline applied to
\* its own output returns the same contest ids, transfer_calc and status.
C4_AsStated ==
    pc \in {"recleaned", "reclean_failed"} => pc = "recleaned" /\ SameAsFirstRun

\* C4 on the inputs whose second run returns
C4_Idempotent ==
    pc = "recleaned" => SameAsFirstRun

(***************************************************************************)
(* The scenarios.                                                          *)
(***************************************************************************)
\* Scenario A was the input: A(100, 70, 0), B(50, 80, 120), round totals
\* (160, 150, 120), A's round 3 record written with 0 votes or left out
ScenarioA ==
    /\ candidates_df \in {ScenarioACandidates(TRUE), ScenarioACandidates(FALSE)}
    /\ rounds_df = ScenarioARounds

\* the cleaned grid has exactly one record of the candidate in the round, with
\* this transfer_calc
TransferIs(candidate_id, round, transfer_calc) ==
    LET cell == SelectSeq(cleaned.candidates,
                          LAMBDA x : x.candidate_id = candidate_id /\ x.round = round)
    IN  Len(cell) = 1 /\ cell[1].transfer_calc = transfer_calc

\* the cleaned grid has exactly one record of the candidate in the round, with
\* this status
StatusIs(candidate_id, round, status) ==
    LET cell == SelectSeq(cleaned.candidates,
                          LAMBDA x : x.candidate_id = candidate_id /\ x.round = round)
    IN  Len(cell) = 1 /\ cell[1].status = status

\* C7 as stated: in Scenario A, B gains 30 and 40, A loses 30 and then has
\* transfer_calc 0 in round 3, B is Elected and A Eliminated in round 3.
C7_AsStated ==
    (Cleaned /\ ScenarioA) =>
        /\ TransferIs("B", 2, 30) /\ TransferIs("B", 3, 40)
        /\ TransferIs("A", 2, -30) /\ TransferIs("A", 3, 0)
        /\ StatusIs("B", 3, "Elected") /\ StatusIs("A", 3, "Eliminated")

\* C7: in Scenario A, B has transfer_calc +30 in round 2 and +40 in round 3, A
\* has -30 in round 2 and -70 in round 3 (its 70 votes of round 2 leave it), B
\* is Elected in round 3 and A is Eliminated in round 3.
C7_ScenarioA ==
    (Cleaned /\ ScenarioA) =>
        /\ TransferIs("B", 2, 30) /\ TransferIs("B", 3, 40)
        /\ TransferIs("A", 2, -30) /\ TransferIs("A", 3, -70)
        /\ StatusIs("B", 3, "Elected") /\ StatusIs("A", 3, "Eliminated")

\* C7 witness: Scenario A without a round 3 record of A was cleaned, and the
\* grid holds A's round 3 with 0 votes.
C7_Witness ==
    /\ pc = "cleaned"
    /\ candidates_df = ScenarioACandidates(FALSE)
    /\ rounds_df = ScenarioARounds
    /\ \E i \in 1..Len(cleaned.candidates) :
          /\ cleaned.candidates[i].candidate_id = "A"
          /\ cleaned.candidates[i].round = 3
          /\ cleaned.candidates[i].votes = 0
          /\ cleaned.candidates[i].transfer_calc = -70

\* the canonical id of the one contest of the scenarios
ScenarioId == cleaned.elections[1].election_id

\* C8 as stated: in Scenario A the transfer_calc sum is 0 in round 2 and 40 in
\* round 3, the transfer-balance rule fails with an issue on round 3, and the
\* tier table gives the contest the flag positive_transfer_balance and tier 3.
C8_AsStated ==
    (pc = "validated" /\ ScenarioA) =>
        /\ SumTransfer(cleaned.candidates, ScenarioId, 2) = 0
        /\ SumTransfer(cleaned.candidates, ScenarioId, 3) = 40
        /\ ~validation_results.validation_rules.transfer_balance.passed
        /\ \E k \in 1..Len(validation_results.validation_rules.transfer_balance.issues) :
              Contains(validation_results.validation_rules.transfer_balance.issues[k],
                       "round 3")
        /\ Len(validation_results.election_scores) = 1
        /\ "positive_transfer_balance" \in Range(validation_results.election_scores[1].flags)
        /\ validation_results.election_scores[1].tier = 3

\* C8: in Scenario A the transfer_calc sum is 0 in round 2 and -30 in round 3,
\* the transfer-balance rule passes without an issue, and the tier table gives
\* the contest the one flag cands_lt_round_total_gap (round 1: 150 of 160
\* votes) and tier 1.
C8_ScenarioA ==
    (pc = "validated" /\ ScenarioA) =>
        /\ SumTransfer(cleaned.candidates, ScenarioId, 2) = 0
        /\ SumTransfer(cleaned.candidates, ScenarioId, 3) = -30
        /\ validation_results.validation_rules.transfer_balance.passed
        /\ validation_results.validation_rules.transfer_balance.issues = <<>>
        /\ Len(validation_results.election_scores) = 1
        /\ validation_results.election_scores[1].election_id = ScenarioId
        /\ validation_results.election_scores[1].flags = <<"cands_lt_round_total_gap">>
        /\ validation_results.election_scores[1].tier = 1

\* C8 witness: Scenario A with A's round 3 record written was validated.
C8_Witness ==
    /\ pc = "validated"
    /\ candidates_df = ScenarioACandidates(TRUE)
    /\ rounds_df = ScenarioARounds
    /\ validation_results.total_candidates = 6
    /\ validation_results.election_scores[1].flags_str = "cands_lt_round_total_gap"

\* the records of the final round of a contest that hold its maximum votes
TiedAtTop(df, eid) ==
    LET final == RoundRows(df, eid, RoundCount(df, eid))
        top   == SetMax({final[k].votes : k \in 1..Len(final)})
    IN  SelectSeq(final, LAMBDA x : x.votes = top)

\* C9: for every contest of the three cleaned collections with two or more
\* candidates tied at the maximum votes of its final round, all the tied
\* candidates are Elected, the single-winner rule fails with an issue that
\* names the contest, and the tier table gives the contest the flag
\* single_winner_violation and tier 3.
C9_TiesAllElected ==
    pc = "validated" =>
        \A eid \in ElectionIds(cleaned.elections) \cap ElectionIds(cleaned.candidates)
                      \cap ElectionIds(cleaned.rounds) :
           Len(TiedAtTop(cleaned.candidates, eid)) >= 2 =>
              /\ \A k \in 1..Len(TiedAtTop(cleaned.candidates, eid)) :
                    TiedAtTop(cleaned.candidates, eid)[k].status = "Elected"
              /\ ~validation_results.validation_rules.single_winner.passed
              /\ \E k \in 1..Len(validation_results.validation_rules.single_winner.issues) :
                    Contains(validation_results.validation_rules.single_winner.issues[k],
                             "Election " \o eid \o ":")
              /\ \E k \in 1..Len(validation_results.election_scores) :
                    /\ validation_results.election_scores[k].election_id = eid
                    /\ "single_winner_violation" \in
                           Range(validation_results.election_scores[k].flags)
                    /\ validation_results.election_scores[k].tier = 3

\* C9 witness: Scenario B (A and B tied at 100 votes in the final round) was
\* validated and both are Elected.
C9_Witness ==
    /\ pc = "validated"
    /\ candidates_df = ScenarioBCandidates
    /\ Len(TiedAtTop(cleaned.candidates, ScenarioId)) = 2
    /\ StatusIs("A", 2, "Elected") /\ StatusIs("B", 2, "Elected")
    /\ validation_results.problematic_elections = <<ScenarioId>>

(***************************************************************************)
(* The columns of the cleaned candidate frame.                             *)
(***************************************************************************)
\* C11 as stated: every cleaned candidate record carries transfer_original, and
\* a record observed in the input keeps the number _clean_candidates made of
\* its raw transfer.
C11_AsStated ==
    Cleaned =>
        \A i \in 1..Len(cleaned.candidates) :
           /\ "transfer_original" \in DOMAIN cleaned.candidates[i]
           /\ \A j \in 1..Len(ReconstructionInput) :
                 (/\ SameKey(ReconstructionInput[j], cleaned.candidates[i])
                  /\ \A k \in 1..(j - 1) :
                        ~SameKey(ReconstructionInput[k], cleaned.candidates[i]))
                 => cleaned.candidates[i].transfer_original
                        = ReconstructionInput[j].transfer_original

(***************************************************************************)
(* The id mapping.                                                         *)
(***************************************************************************)
\* C12 as stated: the rows of the cleaned Contest frame (one per raw id, the
\* duplicates of a raw id having been dropped before) have pairwise different
\* canonical ids.
C12_AsStated ==
    Cleaned =>
        \A i, j \in 1..Len(cleaned.elections) :
           i # j => cleaned.elections[i].election_id # cleaned.elections[j].election_id

(***************************************************************************)
(* Records whose raw contest id has no Contest row.                        *)
(***************************************************************************)
\* the raw ids that get a canonical id: those of the Contest rows that
\* _clean_elections keeps
MappedRawIds == ElectionIds(_clean_elections(elections_df))

\* the records of a raw frame whose id is there and has no entry in the mapping
Orphans(df) ==
    SelectSeq(df, LAMBDA x : x.election_id # NULL /\ x.election_id \notin MappedRawIds)

\* C13 as stated: no cleaned candidate record and no cleaned round record has a
\* null contest id or an id outside the cleaned Contest frame.
C13_AsStated ==
    Cleaned =>
        /\ \A i \in 1..Len(cleaned.candidates) :
              cleaned.candidates[i].election_id \in ElectionIds(cleaned.elections)
        /\ \A i \in 1..Len(cleaned.rounds) :
              cleaned.rounds[i].election_id \in ElectionIds(cleaned.elections)

\* C13: every cleaned candidate record has the id of a cleaned Contest row (the
\* candidate records of unmapped or null raw ids are gone); the round records
\* of null raw ids are gone, and every round record of an unmapped raw id
\* remains, with a null contest id.
C13_OrphanRoundsKept ==
    Cleaned =>
        /\ \A i \in 1..Len(cleaned.candidates) :
              cleaned.candidates[i].election_id \in ElectionIds(cleaned.elections)
        /\ \A i \in 1..Len(cleaned.rounds) :
              \/ cleaned.rounds[i].election_id \in ElectionIds(cleaned.elections)
              \/ cleaned.rounds[i].election_id = NULL
        /\ NullIds(cleaned.rounds) = Len(Orphans(rounds_df))

\* C13 witness: two candidate records and a round record of the raw id e9,
\* which has no Contest row, went in; the candidate records are gone and the
\* round record remains without an id.
C13_Witness ==
    /\ pc = "cleaned"
    /\ Len(Orphans(candidates_df)) = 2
    /\ Len(candidates_df) = 6
    /\ Len(cleaned.candidates) = 4
    /\ Len(Orphans(rounds_df)) = 1
    /\ NullIds(cleaned.rounds) = 1

Validated == pc = "validated"

IdConsistency == validation_results.validation_rules.election_id_consistency

C15_AsStated ==
    Cleaned =>
        \A i \in 1..Len(cleaned.elections) :
           LET id == cleaned.elections[i].election_id
               candidate_rounds == {cleaned.candidates[k].round :
                                       k \in {m \in 1..Len(cleaned.candidates) :
                                                 cleaned.candidates[m].election_id = id}}
               round_rounds == {cleaned.rounds[k].round :
                                   k \in {m \in 1..Len(cleaned.rounds) :
                                             cleaned.rounds[m].election_id = id}}
           IN  /\ candidate_rounds # {} =>
                     cleaned.elections[i].n_rounds = SetMax(candidate_rounds)
               /\ round_rounds # {} =>
                     cleaned.elections[i].n_rounds = SetMax(round_rounds)

\* the cleaned candidate records of the contest of record i
ContestRecords(i) ==
    SelectSeq(cleaned.candidates,
              LAMBDA r : r.election_id = cleaned.candidates[i].election_id)

FinalRound(i) == SetMax({ContestRecords(i)[k].round : k \in 1..Len(ContestRecords(i))})

FinalMaxVotes(i) ==
    SetMax({ContestRecords(i)[k].votes :
               k \in {n \in 1..Len(ContestRecords(i)) :
                         ContestRecords(i)[n].round = FinalRound(i)}})

\* C16: every cleaned candidate record has one of the three statuses; a record
\* of the final round of its contest is Elected when its votes are the most of
\* that round and Eliminated otherwise; a record of an earlier round is
\* Continuing when it has votes and Eliminated otherwise.
C16_StatusRule ==
    Cleaned =>
        \A i \in 1..Len(cleaned.candidates) :
           LET r == cleaned.candidates[i]
           IN  /\ r.status \in {"Elected", "Eliminated", "Continuing"}
               /\ r.round = FinalRound(i) =>
                     /\ r.status = "Elected" <=> r.votes = FinalMaxVotes(i)
                     /\ r.status = "Eliminated" <=> r.votes # FinalMaxVotes(i)
               /\ r.round < FinalRound(i) =>
                     /\ r.status = "Continuing" <=> r.votes > 0
                     /\ r.status = "Eliminated" <=> r.votes <= 0

\* C16 witness: a cleaned contest with all four cases: Elected and Eliminated
\* in the final round, Continuing and Eliminated before it
C16_Witness ==
    /\ pc = "cleaned"
    /\ \E i, j, k, l \in 1..Len(cleaned.candidates) :
          /\ cleaned.candidates[i].election_id = cleaned.candidates[j].election_id
          /\ cleaned.candidates[i].election_id = cleaned.candidates[k].election_id
          /\ cleaned.candidates[i].election_id = cleaned.candidates[l].election_id
          /\ cleaned.candidates[i].round = FinalRound(i)
          /\ cleaned.candidates[i].status = "Elected"
          /\ cleaned.candidates[j].round = FinalRound(i)
          /\ cleaned.candidates[j].status = "Eliminated"
          /\ cleaned.candidates[k].round < FinalRound(i)
          /\ cleaned.candidates[k].status = "Continuing"
          /\ cleaned.candidates[l].round < FinalRound(i)
          /\ cleaned.candidates[l].votes = 0
          /\ cleaned.candidates[l].status = "Eliminated"

Scores == validation_results.election_scores

\* the contest ids of the cleaned Contest frame that have a cleaned candidate
\* record and a cleaned round record
ScoredIds ==
    ElectionIds(cleaned.elections) \cap ElectionIds(cleaned.candidates)
        \cap ElectionIds(cleaned.rounds)

\* C17 as stated: every contest id of the Contest collection has exactly one
\* row, and a contest without candidate records or without round records has
\* tier 0 and no flags.
C17_AsStated ==
    Validated =>
        \A id \in ElectionIds(cleaned.elections) :
           /\ Cardinality({k \in 1..Len(Scores) : Scores[k].election_id = id}) = 1
           /\ id \notin ScoredIds =>
                 \A k \in 1..Len(Scores) :
                    Scores[k].election_id = id =>
                       Scores[k].tier = 0 /\ Scores[k].flags = <<>>

\* C17: the rows are exactly one per contest id of the Contest collection that
\* has candidate records and round records; a contest without either has no
\* row; the flags of a row are in ascending order without repetition, and
\* flags_str is their join with '|'.
C17_OneRowPerScoredContest ==
    Validated =>
        /\ {Scores[k].election_id : k \in 1..Len(Scores)} = ScoredIds
        /\ Len(Scores) = Cardinality(ScoredIds)
        /\ \A k \in 1..Len(Scores) :
              /\ \A n \in 1..(Len(Scores[k].flags) - 1) :
                    FlagLess(Scores[k].flags[n], Scores[k].flags[n + 1])
              /\ Scores[k].flags_str = JoinPipe(Scores[k].flags)
              /\ Scores[k].flags = <<>> <=> Scores[k].tier = 0

\* C17 witness: of two contests one has no candidate records, and only the
\* other has a row
C17_Witness ==
    /\ Validated
    /\ Cardinality(ElectionIds(cleaned.elections)) = 2
    /\ Cardinality(ScoredIds) = 1
    /\ Len(Scores) = 1

Rules == validation_results.validation_rules

Problematic == validation_results.problematic_elections

StartsWith(s, prefix) ==
    Len(s) >= Len(prefix) /\ SubSeq(s, 1, Len(prefix)) = prefix

\* an issue of the rule names the contest id: the id stands in the message,
\* followed by a colon or by the word round or candidate
NamedIn(rule, id) ==
    \E k \in 1..Len(Rules[rule].issues) :
       \/ Contains(Rules[rule].issues[k], " " \o id \o ":")
       \/ Contains(Rules[rule].issues[k], " " \o id \o " round ")
       \/ Contains(Rules[rule].issues[k], " " \o id \o " candidate ")
       \/ Contains(Rules[rule].issues[k], "'" \o id \o "'")

\* an issue of the rule has the form "Election <id>: ..."
HeadedBy(rule, id) ==
    \E k \in 1..Len(Rules[rule].issues) :
       StartsWith(Rules[rule].issues[k], "Election " \o id \o ":")

ContestRules ==
    {"vote_consistency", "transfer_balance", "single_winner", "vote_monotonicity",
     "election_id_consistency", "round_sequence"}

\* C18 as stated: every contest id named in an issue of a failed rule among
\* the six is in the problematic list, and every id of the list is named in
\* an issue of a failed rule.
C18_AsStated ==
    Validated =>
        /\ \A id \in ElectionIds(cleaned.elections) :
              (\E rule \in ContestRules : ~Rules[rule].passed /\ NamedIn(rule, id))
                  => id \in Range(Problematic)
        /\ \A id \in Range(Problematic) :
              \E rule \in ContestRules : ~Rules[rule].passed /\ NamedIn(rule, id)

\* C18: the problematic list holds, once each, exactly the contest ids of the
\* issues of the form "Election <id>: ..." of the failed single-winner and
\* round-sequence rules; an id named only in an issue of the failed
\* vote-consistency, transfer-balance, vote-monotonicity or
\* identifier-consistency rule is not in it.
C18_OnlyHeadedIssues ==
    Validated =>
        /\ \A id \in ElectionIds(cleaned.elections) :
              id \in Range(Problematic) <=>
                 \E rule \in {"single_winner", "round_sequence"} :
                    ~Rules[rule].passed /\ HeadedBy(rule, id)
        /\ Range(Problematic) \subseteq ElectionIds(cleaned.elections)
        /\ Cardinality(Range(Problematic)) = Len(Problematic)

\* C18 witness: one contest fails the single-winner rule and is listed; the
\* vote-consistency rule fails for a contest too
C18_Witness ==
    /\ Validated
    /\ ~Rules.single_winner.passed
    /\ ~Rules.vote_consistency.passed
    /\ Len(Problematic) = 1
    /\ HeadedBy("single_winner", Problematic[1])

\* C18 witness: the vote-consistency rule fails with an issue that names a
\* contest, and the problematic list is empty
C18_WitnessUnlisted ==
    /\ Validated
    /\ ~Rules.vote_consistency.passed
    /\ \E id \in ElectionIds(cleaned.elections) : NamedIn("vote_consistency", id)
    /\ Problematic = <<>>

\* the votes of the cleaned candidate records of a contest in a round
CandidateVoteSum(id, r) == SumVotes(cleaned.candidates, id, r)

\* the total_votes of the first cleaned round record of a contest and round
RoundTotal(id, r) == RoundRows(cleaned.rounds, id, r)[1].total_votes

\* the (contest, round) pairs of the round records of the given contests
RoundPairs(ids) ==
    {p \in ids \X {cleaned.rounds[k].round : k \in 1..Len(cleaned.rounds)} :
        RoundRows(cleaned.rounds, p[1], p[2]) # <<>>}

Overages(pairs) ==
    Cardinality({p \in pairs : CandidateVoteSum(p[1], p[2]) > RoundTotal(p[1], p[2])})

Shortfalls(pairs) ==
    Cardinality({p \in pairs : RoundTotal(p[1], p[2]) - CandidateVoteSum(p[1], p[2]) > 100})

VoteConsistencyAsCounted(pairs) ==
    LET k == Overages(pairs)
        s == Shortfalls(pairs)
    IN  /\ Rules.vote_consistency.passed = (k = 0)
        /\ k > 0 => Rules.vote_consistency.score = Max2(0, 100 - 10 * k)
        /\ (k = 0 /\ s > 0) => Rules.vote_consistency.score = 95
        /\ (k = 0 /\ s = 0) => Rules.vote_consistency.score = 100

\* C19 as stated: with k and s counted over all (contest, round) pairs of the
\* round-summary collection, passed = (k = 0) and the score is
\* max(0, 100 - 10k), 95 or 100.
C19_AsStated ==
    Validated => VoteConsistencyAsCounted(RoundPairs(ElectionIds(cleaned.rounds)))

\* C19: with k and s counted over the (contest, round) pairs of the
\* round-summary collection whose contest has candidate records, passed =
\* (k = 0); the score is max(0, 100 - 10k) when k > 0, 95 when k = 0 and s > 0,
\* and 100 when both are 0; the rule has k + s issues.
C19_VoteConsistency ==
    Validated =>
        LET pairs == RoundPairs(ElectionIds(cleaned.candidates))
        IN  /\ VoteConsistencyAsCounted(pairs)
            /\ Len(Rules.vote_consistency.issues) = Overages(pairs) + Shortfalls(pairs)

\* C19 witness: no overage and one shortfall of more than a hundred votes; the
\* rule passes with 95
C19_Witness ==
    /\ Validated
    /\ Overages(RoundPairs(ElectionIds(cleaned.candidates))) = 0
    /\ Shortfalls(RoundPairs(ElectionIds(cleaned.candidates))) = 1
    /\ Rules.vote_consistency.passed
    /\ Rules.vote_consistency.score = 95

\* C19 witness: two overages; the rule fails with 80
C19_WitnessOverage ==
    /\ Validated
    /\ Overages(RoundPairs(ElectionIds(cleaned.candidates))) = 2
    /\ ~Rules.vote_consistency.passed
    /\ Rules.vote_consistency.score = 80

\* the (contest, round) pairs of the cleaned candidate records after round 1
TransferPairs ==
    {<<cleaned.candidates[k].election_id, cleaned.candidates[k].round>> :
        k \in {n \in 1..Len(cleaned.candidates) : cleaned.candidates[n].round > 1}}

PositiveSums ==
    Cardinality({p \in TransferPairs : SumTransfer(cleaned.candidates, p[1], p[2]) > 0})

LargeNegativeSums ==
    Cardinality({p \in TransferPairs : SumTransfer(cleaned.candidates, p[1], p[2]) < 0 - 100})

\* C20: with k the number of (contest, round) pairs after round 1 of the
\* candidate collection whose transfer_calc sum is positive and s the number
\* whose sum is below -100, passed = (k = 0); the score is max(0, 100 - 10k)
\* when k > 0, 95 when k = 0 and s > 0, and 100 otherwise; no issue is about
\* round 1.
C20_TransferBalance ==
    Validated =>
        /\ Rules.transfer_balance.passed = (PositiveSums = 0)
        /\ PositiveSums > 0 =>
              Rules.transfer_balance.score = Max2(0, 100 - 10 * PositiveSums)
        /\ (PositiveSums = 0 /\ LargeNegativeSums > 0) => Rules.transfer_balance.score = 95
        /\ (PositiveSums = 0 /\ LargeNegativeSums = 0) => Rules.transfer_balance.score = 100
        /\ Len(Rules.transfer_balance.issues) = PositiveSums + LargeNegativeSums
        /\ \A k \in 1..Len(Rules.transfer_balance.issues) :
              ~Contains(Rules.transfer_balance.issues[k], " round 1:")

\* C20 witness: no positive sum and one sum below -100; the rule passes with 95
C20_Witness ==
    /\ Validated
    /\ PositiveSums = 0
    /\ LargeNegativeSums = 1
    /\ Rules.transfer_balance.passed
    /\ Rules.transfer_balance.score = 95

\* C20 witness: one positive sum; the rule fails with 90
C20_WitnessPositive ==
    /\ Validated
    /\ PositiveSums = 1
    /\ ~Rules.transfer_balance.passed
    /\ Rules.transfer_balance.score = 90

\* the rounds of the records of a contest in a cleaned frame
RoundsOf(df, id) == {df[k].round : k \in {n \in 1..Len(df) : df[n].election_id = id}}

CandidateRoundsOk(id) ==
    RoundsOf(cleaned.candidates, id) = 1..SetMax(RoundsOf(cleaned.candidates, id))

RoundsAgree(id) == RoundsOf(cleaned.rounds, id) = RoundsOf(cleaned.candidates, id)

\* the discrepancies the rule reports for a contest: a first round other than
\* 1, rounds other than 1..max, and rounds that differ between the collections
Discrepancies(id) ==
    (IF 1 \notin RoundsOf(cleaned.candidates, id) THEN 1 ELSE 0)
    + (IF ~CandidateRoundsOk(id) THEN 1 ELSE 0)
    + (IF ~RoundsAgree(id) THEN 1 ELSE 0)

RECURSIVE SumOver(_)
SumOver(S) ==
    IF S = {} THEN 0
    ELSE LET x == CHOOSE y \in S : TRUE IN Discrepancies(x) + SumOver(S \ {x})

C21_WitnessExtraRound ==
    /\ Validated
    /\ \E id \in ElectionIds(cleaned.candidates) :
          /\ RoundsOf(cleaned.candidates, id) = {1}
          /\ RoundsOf(cleaned.rounds, id) = {1, 2}
    /\ ~Rules.round_sequence.passed

\* the cleaned candidate records of the contest and candidate of record i in
\* the rounds before it
Earlier(i) ==
    {j \in 1..Len(cleaned.candidates) :
        /\ cleaned.candidates[j].election_id = cleaned.candidates[i].election_id
        /\ cleaned.candidates[j].candidate_id = cleaned.candidates[i].candidate_id
        /\ cleaned.candidates[j].round < cleaned.candidates[i].round}

\* the votes of the candidate of record i in the round before it
PrecedingVotes(i) ==
    LET j == CHOOSE m \in Earlier(i) :
                \A n \in Earlier(i) : cleaned.candidates[n].round <= cleaned.candidates[m].round
    IN  cleaned.candidates[j].votes

\* the records with fewer votes than the same candidate had the round before
Drops ==
    {i \in 1..Len(cleaned.candidates) :
        Earlier(i) # {} /\ cleaned.candidates[i].votes < PrecedingVotes(i)}

MonotonicityViolations == {i \in Drops : cleaned.candidates[i].status # "Eliminated"}

MonotonicityAsCounted ==
    /\ Len(Rules.vote_monotonicity.issues) = Cardinality(MonotonicityViolations)
    /\ Rules.vote_monotonicity.passed = (MonotonicityViolations = {})
    /\ Rules.vote_monotonicity.score
          = Max2(0, 100 - 5 * Cardinality(MonotonicityViolations))

\* C22 as stated: the rule reports one violation for each record that is not
\* Eliminated and has fewer votes than its candidate had the round before, and
\* a record whose votes dropped to 0 is never among them.
C22_AsStated ==
    Validated =>
        /\ MonotonicityAsCounted
        /\ \A i \in MonotonicityViolations : cleaned.candidates[i].votes # 0

\* C22: the rule reports one violation for each record that is not Eliminated
\* and has fewer votes than its candidate had the round before, with passed =
\* (no violations) and score = max(0, 100 - 5 * violations); a record whose
\* votes dropped to 0 is reported exactly when it is labelled Elected, which
\* happens in a final round where nobody has votes.
C22_Monotonicity ==
    Validated =>
        /\ MonotonicityAsCounted
        /\ \A i \in Drops :
              cleaned.candidates[i].votes = 0 =>
                 (i \in MonotonicityViolations <=> cleaned.candidates[i].status = "Elected")
        /\ \A i \in MonotonicityViolations :
              cleaned.candidates[i].votes = 0 =>
                 /\ cleaned.candidates[i].round = FinalRound(i)
                 /\ FinalMaxVotes(i) = 0

\* C22 witness: a continuing candidate lost votes and is reported, an
\* eliminated candidate dropped to 0 and is not
C22_Witness ==
    /\ Validated
    /\ \E i \in MonotonicityViolations : cleaned.candidates[i].votes > 0
    /\ \E i \in Drops :
          cleaned.candidates[i].votes = 0 /\ cleaned.candidates[i].status = "Eliminated"
    /\ ~Rules.vote_monotonicity.passed

\* C22 witness: in a final round without votes a candidate who dropped to 0 is
\* Elected and reported
C22_WitnessZeroFinal ==
    /\ Validated
    /\ \E i \in MonotonicityViolations : cleaned.candidates[i].votes = 0

OverallScore == validation_results.overall_score

\* C23: the overall score is the sum of the scores of the seven rules over
\* seven; every rule score is in 0..100, and so is the overall score.
C23_OverallMean ==
    Validated =>
        /\ OverallScore.count = 7
        /\ OverallScore.total
              = Rules.data_completeness.score + Rules.vote_consistency.score
                + Rules.transfer_balance.score + Rules.single_winner.score
                + Rules.vote_monotonicity.score + Rules.election_id_consistency.score
                + Rules.round_sequence.score
        /\ DOMAIN Rules = Range(RuleNames)
        /\ \A rule \in DOMAIN Rules : Rules[rule].score \in 0..100
        /\ 0 <= OverallScore.total
        /\ OverallScore.total <= 100 * OverallScore.count

\* C23 witness: one rule scored 100 and another less, so the mean is below 100
C23_Witness ==
    /\ Validated
    /\ \E a, b \in DOMAIN Rules :
          /\ Rules[a].score = 100
          /\ Rules[b].score < 100
    /\ OverallScore.total < 700
    /\ OverallScore.total > 0

\* the metadata of a Contest row: everything but its id
Metadata(r) == [f \in DOMAIN r \ {"election_id"} |-> r[f]]

TypeAbbrev(r) ==
    LET t == str_lower(StrOf(r.election_type))
    IN  IF t = "general" THEN "G"
        ELSE IF t = "primary" THEN "P"
        ELSE IF t = "special" THEN "S"
        ELSE "X"

IsPrimaryWithParty(r) ==
    str_lower(StrOf(r.election_type)) = "primary" /\ r.prm_party # NULL

\* state, year, type_abbrev, jurisdiction_slug, district_slug, office_slug
\* joined with '_'
SixTokens(r) ==
    StrOf(r.state) \o "_" \o YearStr(r.year) \o "_" \o TypeAbbrev(r) \o "_"
    \o juris_std(r) \o "_" \o dist_std(r) \o "_" \o office_std(r)

C25_AsStated ==
    Validated =>
        \A i \in MonotonicityViolations :
           cleaned.candidates[i].election_id \in ScoredIds =>
              \E k \in 1..Len(Scores) :
                 /\ Scores[k].election_id = cleaned.candidates[i].election_id
                 /\ "vote_monotonicity_violation" \in Range(Scores[k].flags)
                 /\ Scores[k].tier >= 1

\* floor(0.02 * t) for a total t >= 0: the n with 50 n <= t < 50 (n + 1)
FloorTwoPercent(t) == CHOOSE n \in 0..t : 50 * n <= t /\ t < 50 * (n + 1)

\* the threshold T of the claim
LargeThreshold ==
    IF class_total.given THEN Max2(1000, FloorTwoPercent(class_total.v)) ELSE 1000

LastObserved(i) ==
    SetMax({ReconstructionInput[j].round :
               j \in {n \in 1..Len(ReconstructionInput) :
                         SameGroup(ReconstructionInput[n], Reconstructed[i])}})

\* the reconstructed votes of the candidate of record i in round r
VotesIn(i, r) ==
    LET j == CHOOSE n \in 1..Len(Reconstructed) :
                SameGroup(Reconstructed[n], Reconstructed[i]) /\ Reconstructed[n].round = r
    IN  Reconstructed[j].votes

\* C27: a reconstructed record of a round after the last round k >= 1 its
\* candidate was observed in has votes = 0; in round k + 1 its transfer_calc
\* is minus the votes of round k, and in every later round it is 0.  (The
\* rounds of the grid start at 1: an observation of a round below 1 is not
\* part of it.)
C27_Elimination ==
    \A i \in 1..Len(Reconstructed) :
       (LastObserved(i) >= 1 /\ Reconstructed[i].round > LastObserved(i)) =>
          /\ Reconstructed[i].votes = 0
          /\ Reconstructed[i].round = LastObserved(i) + 1 =>
                Reconstructed[i].transfer_calc = 0 - VotesIn(i, LastObserved(i))
          /\ Reconstructed[i].round > LastObserved(i) + 1 =>
                Reconstructed[i].transfer_calc = 0

\* C27 witness: a candidate observed in round 1 only, with one vote, in a
\* contest of three rounds: -1 in round 2 and 0 in round 3
C27_Witness ==
    /\ pc = "cleaned"
    /\ \E i, j \in 1..Len(Reconstructed) :
          /\ SameGroup(Reconstructed[i], Reconstructed[j])
          /\ LastObserved(i) = 1
          /\ VotesIn(i, 1) = 1
          /\ Reconstructed[i].round = 2
          /\ Reconstructed[i].transfer_calc = 0 - 1
          /\ Reconstructed[j].round = 3
          /\ Reconstructed[j].votes = 0
          /\ Reconstructed[j].transfer_calc = 0

\* the cleaned candidate records of a contest labelled Elected in its final round
ElectedInFinal(id) ==
    {i \in 1..Len(cleaned.candidates) :
        /\ cleaned.candidates[i].election_id = id
        /\ cleaned.candidates[i].round = FinalRound(i)
        /\ cleaned.candidates[i].status = "Elected"}

\* C28: every contest of the cleaned candidate records has a record labelled
\* Elected in its final round and none before it; the single-winner rule never
\* reports a missing winner, and it fails exactly when some contest has more
\* than one Elected record in its final round.
C28_WinnerExists ==
    /\ Cleaned =>
          /\ \A id \in ElectionIds(cleaned.candidates) : ElectedInFinal(id) # {}
          /\ \A i \in 1..Len(cleaned.candidates) :
                cleaned.candidates[i].round < FinalRound(i)
                    => cleaned.candidates[i].status # "Elected"
    /\ Validated =>
          /\ \A k \in 1..Len(Rules.single_winner.issues) :
                /\ ~Contains(Rules.single_winner.issues[k], "No winner identified")
                /\ Contains(Rules.single_winner.issues[k], "Multiple winners identified")
          /\ ~Rules.single_winner.passed <=>
                \E id \in ElectionIds(cleaned.candidates) :
                   Cardinality(ElectedInFinal(id)) > 1

\* C28 witness: one contest with a single winner and one with two tied
\* winners; the single-winner rule fails with one issue
C28_Witness ==
    /\ Validated
    /\ \E id \in ElectionIds(cleaned.candidates) : Cardinality(ElectedInFinal(id)) = 1
    /\ \E id \in ElectionIds(cleaned.candidates) : Cardinality(ElectedInFinal(id)) = 2
    /\ ~Rules.single_winner.passed
    /\ Len(Rules.single_winner.issues) = 1

\* the tier table lists the flag for the contest
Flagged(id, f) ==
    \E k \in 1..Len(Scores) : Scores[k].election_id = id /\ f \in Range(Scores[k].flags)

\* the cleaned candidate records of a contest labelled Elected, in any round
ElectedAnywhere(id) ==
    {i \in 1..Len(cleaned.candidates) :
        /\ cleaned.candidates[i].election_id = id
        /\ cleaned.candidates[i].status = "Elected"}

\* C29: for every contest present in the three cleaned collections, the
\* single-winner rule has an issue for the contest exactly when the tier
\* table lists single_winner_violation for it; the Elected records counted
\* over all rounds are those of the final round.
C29_SingleWinnerAgreement ==
    Validated =>
        \A id \in ScoredIds :
           /\ HeadedBy("single_winner", id) <=> Flagged(id, "single_winner_violation")
           /\ ElectedAnywhere(id) = ElectedInFinal(id)

\* C29 witness: two contests in the three collections, one with tied winners,
\* which has the issue and the flag, and one with a single winner, which has
\* neither
C29_Witness ==
    /\ Validated
    /\ \E id \in ScoredIds :
          HeadedBy("single_winner", id) /\ Flagged(id, "single_winner_violation")
    /\ \E id \in ScoredIds :
          ~HeadedBy("single_winner", id) /\ ~Flagged(id, "single_winner_violation")

\* the names observed in the input records of the contest and candidate of the
\* reconstructed record i
ObservedNames(i) ==
    {ReconstructionInput[j].name :
        j \in {n \in 1..Len(ReconstructionInput) :
                  SameGroup(ReconstructionInput[n], Reconstructed[i])}} \ {NULL}

\* C30 as stated: the name of every reconstructed record is a name observed
\* for its own contest and candidate, or empty when there is none; it is not
\* empty when there is one.
C30_AsStated ==
    \A i \in 1..Len(Reconstructed) :
       IF ObservedNames(i) = {}
       THEN Reconstructed[i].name = NULL
       ELSE Reconstructed[i].name \in ObservedNames(i)

====
